---------------------------- MODULE Spec2Model ----------------------------
(***************************************************************************)
(* Model of the sn_routing delivery-group selector                         *)
(* (src/src/delivery_group.rs): delivery_group_size, delivery_targets,     *)
(* candidates, get_peer and signature_targets, over the section map and    *)
(* the prefix / XOR-distance algebra they call; and of the stage of a node *)
(* (src/src/node/stage/mod.rs): its constructors and its dispatch of       *)
(* messages, timeouts and user messages to the current state; and of the   *)
(* adult state (src/src/states/adult/mod.rs): its handling of signed       *)
(* messages, of signature shares and of direct messages, its knowledge     *)
(* timer, its relocation, its promotion and the replay of its backlogs;    *)
(* and of the merge of group-key responses                                 *)
(* (src/src/messages/get_group_key_response.rs) and of votes               *)
(* (src/src/vote.rs).                                                      *)
(*                                                                         *)
(* Names are NameBits-bit unsigned integers (256 bits in the program), bit *)
(* 0 being the most significant one.  A prefix is a sequence of bits.      *)
(***************************************************************************)
EXTENDS Integers, Sequences, FiniteSets, TLC

VARIABLES
    sections,     \* SectionMap: [our |-> EldersInfo, neighbours |-> [Prefix -> EldersInfo]]
    our_id,       \* XorName of this node
    our_members,  \* SectionMembers of our section: [Name -> MemberInfo]
    call,         \* the last call made: [op |-> ..., ...arguments...]
    result,       \* what that call returned
    loop,         \* the iterations the `for` loop of candidates went through
    state,        \* Stage.state: which State variant the node is in
    events,       \* the events sent to the user, oldest first
    adult,        \* the Adult state: chain, genesis info, filter, backlogs, accumulator
    pool          \* the signed messages in flight that can reach the adult

\* The node around the shared state of its section.
node_vars == <<state, events, adult, pool>>

vars == <<sections, our_id, our_members, call, result, loop, node_vars>>

---------------------------------------------------------------------------
(* Bounds of the model.                                                    *)

\* Width of a name in bits (the program uses 256).
NameBits == 4

\* Longest section prefix of a section map.
MaxPrefixLen == 2

\* Width of usize in bits (the program runs with 64).
UsizeBits == 7

\* Number of peers the elder lists given to signature_targets are drawn from.
SigPoolSize == 8

\* Number of elders of a full section (NetworkParams.elder_size).
ELDER_SIZE == 7

---------------------------------------------------------------------------
(* Names and XOR distance (xor_name::XorName).                             *)

Names == 0..(2^NameBits - 1)

Min(a, b) == IF a <= b THEN a ELSE b

\* Bit i (0 = most significant) of name n.
Bit(n, i) == (n \div 2^(NameBits - 1 - i)) % 2

RECURSIVE XorFrom(_, _, _)
XorFrom(a, b, i) ==
    IF i = NameBits THEN 0
    ELSE (IF Bit(a, i) = Bit(b, i) THEN 0 ELSE 2^(NameBits - 1 - i))
         + XorFrom(a, b, i + 1)

XorTable == [a \in Names |-> [b \in Names |-> XorFrom(a, b, 0)]]

\* Bitwise XOR of two names, read as an unsigned integer.
Xor(a, b) == XorTable[a][b]

\* XorName::cmp_distance: orders a and b by their XOR distance to t.
cmp_distance(t, a, b) ==
    IF Xor(t, a) < Xor(t, b) THEN "Less"
    ELSE IF Xor(t, a) > Xor(t, b) THEN "Greater"
    ELSE "Equal"

---------------------------------------------------------------------------
(* Prefixes (xor_name::Prefix).                                            *)

RECURSIVE BitSeqs(_)
BitSeqs(n) ==
    IF n = 0 THEN {<<>>}
    ELSE {Append(s, b) : s \in BitSeqs(n - 1), b \in {0, 1}}

Prefixes == UNION {BitSeqs(n) : n \in 0..Min(MaxPrefixLen, NameBits)}

\* Prefix::matches: the leading Len(p) bits of name n equal p.
Matches(p, n) == \A i \in 1..Len(p) : Bit(n, i - 1) = p[i]

\* One prefix contains the other.
IsCompatible(p, q) == \A i \in 1..Min(Len(p), Len(q)) : p[i] = q[i]

\* Prefix::is_neighbour: neither contains the other and their first
\* differing bit is the last bit of the shorter one.
is_neighbour(p, q) ==
    LET m == Min(Len(p), Len(q))
    IN  /\ m >= 1
        /\ \A i \in 1..(m - 1) : p[i] = q[i]
        /\ p[m] # q[m]

RECURSIVE PrefixLow(_, _)
\* The lowest name matching the first k bits of prefix p.
PrefixLow(p, k) ==
    IF k = 0 THEN 0 ELSE PrefixLow(p, k - 1) + p[k] * 2^(NameBits - k)

\* The centre of the region of names a prefix matches.
Centre(p) ==
    PrefixLow(p, Len(p))
    + (IF Len(p) < NameBits THEN 2^(NameBits - 1 - Len(p)) ELSE 0)

RECURSIVE LexLess(_, _, _)
LexLess(p, q, i) ==
    IF i > Len(p) \/ i > Len(q) THEN Len(p) < Len(q)
    ELSE IF p[i] # q[i] THEN p[i] < q[i]
    ELSE LexLess(p, q, i + 1)

\* Prefix p is closer to name t than prefix q: by XOR of t against the
\* prefix's centre, then the longer prefix, then lexicographically.
PrefixCloser(p, q, t) ==
    LET dp == Xor(t, Centre(p))
        dq == Xor(t, Centre(q))
    IN  \/ dp < dq
        \/ dp = dq /\ Len(p) > Len(q)
        \/ dp = dq /\ Len(p) = Len(q) /\ LexLess(p, q, 1)

---------------------------------------------------------------------------
(* Peers, elder sets and the section map (crate::peer, crate::section).    *)

\* Peer { name, addr }.
Peer(n, a) == [name |-> n, addr |-> a]

\* Option<T>: None is the empty sequence, Some(x) the sequence <<x>>.
None == <<>>
Some(x) == <<x>>

RECURSIVE SetToSeq(_)
\* The elements of a set of integers in ascending order.
SetToSeq(S) ==
    IF S = {} THEN <<>>
    ELSE LET m == CHOOSE x \in S : \A y \in S : x <= y
         IN  <<m>> \o SetToSeq(S \ {m})

\* EldersInfo.elders.values(): the peers of a BTreeMap<XorName, Peer>, in
\* the order of their names.
ElderValues(info) ==
    LET names == SetToSeq(DOMAIN info.elders)
    IN  [i \in 1..Len(names) |-> info.elders[names[i]]]

\* SectionMap::our
Our(map) == map.our

\* SectionMap::all: our section and the neighbours.
AllSections(map) ==
    {map.our} \cup {map.neighbours[p] : p \in DOMAIN map.neighbours}

\* SectionMap::is_elder
is_elder(map, name) == name \in DOMAIN Our(map).elders

\* SectionMap::our_elders
our_elders(map) == ElderValues(Our(map))

\* SectionMap::get_elder: scans own and neighbour elder sets.
get_elder(map, name) ==
    IF \E info \in AllSections(map) : name \in DOMAIN info.elders
    THEN Some((CHOOSE info \in AllSections(map) :
                   name \in DOMAIN info.elders).elders[name])
    ELSE None

\* SectionMap::closest: the known section whose prefix is closest to name.
closest(map, name) ==
    CHOOSE info \in AllSections(map) :
        \A other \in AllSections(map) :
            other = info \/ PrefixCloser(info.prefix, other.prefix, name)

RECURSIVE SortSections(_, _)
SortSections(S, name) ==
    IF S = {} THEN <<>>
    ELSE LET first == CHOOSE info \in S : \A other \in S :
                          other = info
                          \/ PrefixCloser(info.prefix, other.prefix, name)
         IN  <<first>> \o SortSections(S \ {first}, name)

\* SectionMap::sorted_by_distance_to: all known sections, closest first.
sorted_by_distance_to(map, name) == SortSections(AllSections(map), name)

\* SectionMembers::get
members_get(members, name) ==
    IF name \in DOMAIN members THEN Some(members[name]) ELSE None

---------------------------------------------------------------------------
(* src/src/delivery_group.rs                                               *)

\* The largest usize.
UsizeMax == 2^UsizeBits - 1

\* Result<(Vec<Peer>, usize)>
Ok(targets, dg_size) == [ok |-> TRUE, targets |-> targets, dg_size |-> dg_size]
CannotRoute == [ok |-> FALSE, err |-> "CannotRoute"]

\* DstLocation
Node(n) == [kind |-> "Node", name |-> n]
Section(n) == [kind |-> "Section", name |-> n]
Direct == [kind |-> "Direct"]

\* Mutant of delivery_group_size: n / 3, rounding down.
delivery_group_size_floor(n) == n \div 3

\* (n + 2) / 3 on usize; the addition wraps at the width of usize.
delivery_group_size(n) == ((n + 2) % 2^UsizeBits) \div 3

\* Vec::retain(|node| node.name() != our_id) / filter(...).collect()
WithoutName(seq, name) == SelectSeq(seq, LAMBDA node : node.name # name)

RECURSIVE InsertByDistance(_, _, _)
\* Inserts x behind every element that is not farther from t than x.
InsertByDistance(t, sorted, x) ==
    IF sorted = <<>> THEN <<x>>
    ELSE IF cmp_distance(t, Head(sorted).name, x.name) = "Greater"
         THEN <<x>> \o sorted
         ELSE <<Head(sorted)>> \o InsertByDistance(t, Tail(sorted), x)

RECURSIVE SortFrom(_, _, _)
SortFrom(t, seq, sorted) ==
    IF seq = <<>> THEN sorted
    ELSE SortFrom(t, Tail(seq), InsertByDistance(t, sorted, Head(seq)))

\* Mutant of sort_by_distance: the peers stay as they come.
sort_by_distance_unsorted(t, seq) == seq

\* sort_by(|lhs, rhs| t.cmp_distance(lhs.name(), rhs.name())): a stable sort
\* by XOR distance to t.
sort_by_distance(t, seq) == SortFrom(t, seq, <<>>)

\* Mutant of enough_candidates: the test is made past the first section.
enough_candidates_later(idx, len, dg_size) == idx > 0 /\ len >= dg_size

\* Mutant of enough_candidates: more than dg_size candidates are asked for.
enough_candidates_strict(idx, len, dg_size) == idx = 0 /\ len > dg_size

\* The test of the loop's second break.
enough_candidates(idx, len, dg_size) == idx = 0 /\ len >= dg_size

RECURSIVE candidates_loop(_, _, _, _, _, _, _)
\* The `for` loop of candidates from iteration idx (0-based) on:
\* filtered_sections are the known sections by distance to the target,
\* nodes_to_send and dg_size the loop's variables, trace one record per
\* iteration gone through.
candidates_loop(idx, filtered_sections, nodes_to_send, dg_size, id, map, trace) ==
    IF idx >= Len(filtered_sections)
    THEN [nodes_to_send |-> nodes_to_send, dg_size |-> dg_size, trace |-> trace]
    ELSE LET info == filtered_sections[idx + 1]
             len == Cardinality(DOMAIN info.elders)
             extended == nodes_to_send \o ElderValues(info)
             size == delivery_group_size(len)
         IN  IF info.prefix = Our(map).prefix
             THEN LET retained == WithoutName(extended, id)
                  IN  [nodes_to_send |-> retained,
                       dg_size |-> Len(retained),
                       trace |-> Append(trace,
                           [idx |-> idx, prefix |-> info.prefix,
                            nodes |-> retained, dg_size |-> Len(retained),
                            break |-> TRUE])]
             ELSE IF enough_candidates(idx, Len(extended), size)
             THEN [nodes_to_send |-> extended,
                   dg_size |-> size,
                   trace |-> Append(trace,
                       [idx |-> idx, prefix |-> info.prefix,
                        nodes |-> extended, dg_size |-> size,
                        break |-> TRUE])]
             ELSE candidates_loop(idx + 1, filtered_sections, extended, size,
                      id, map,
                      Append(trace,
                          [idx |-> idx, prefix |-> info.prefix,
                           nodes |-> extended, dg_size |-> size,
                           break |-> FALSE]))

\* Mutant of candidates_result: a quorum of 0 is not refused.
candidates_result_any_quorum(nodes_to_send, dg_size) ==
    IF Len(nodes_to_send) >= dg_size
    THEN Ok(nodes_to_send, dg_size)
    ELSE CannotRoute

\* The end of candidates: Ok when the quorum is positive and reachable.
candidates_result(nodes_to_send, dg_size) ==
    IF dg_size > 0 /\ Len(nodes_to_send) >= dg_size
    THEN Ok(nodes_to_send, dg_size)
    ELSE CannotRoute

\* candidates: the result, with the loop's iterations.
candidates(target_name, id, map) ==
    LET l == candidates_loop(0, sorted_by_distance_to(map, target_name),
                             <<>>, 0, id, map, <<>>)
    IN  [result |-> candidates_result(
                        sort_by_distance(target_name, l.nodes_to_send),
                        l.dg_size),
         trace |-> l.trace]

\* Mutant of get_peer: the elder sets first, then the member table.
get_peer_elders_first(name, members, map) ==
    LET elder == get_elder(map, name)
        member == members_get(members, name)
    IN  IF elder # None THEN elder
        ELSE IF member # None THEN Some(member[1].peer) ELSE None

\* get_peer: the member table first, then the elder sets.
get_peer(name, members, map) ==
    LET member == members_get(members, name)
    IN  IF member # None THEN Some(member[1].peer) ELSE get_elder(map, name)

\* Mutant of non_elder_targets: the quorum is a third of the elders.
non_elder_targets_third(map) ==
    LET targets == our_elders(map)
    IN  Ok(targets, delivery_group_size(Len(targets)))

\* The branch of a node that is no elder: all the elders of our section.
non_elder_targets(map) ==
    LET targets == our_elders(map)
    IN  Ok(targets, Len(targets))

\* Mutant of node_self_targets: our own name cannot be routed to.
node_self_unroutable == CannotRoute

\* Node(target_name) with target_name = our_id.
node_self_targets == Ok(<<>>, 0)

\* Node(target_name) with get_peer returning Some(node).
known_peer_targets(node) == Ok(<<node>>, 1)

\* Mutant of section_targets: we stay among the targets.
section_targets_with_self(info, id) ==
    LET section == ElderValues(info)
    IN  Ok(section, Len(section))

\* Mutant of section_targets: the first third of the elders only.
section_targets_third(info, id) ==
    LET section == WithoutName(ElderValues(info), id)
        size == delivery_group_size(Len(section))
    IN  Ok(SubSeq(section, 1, size), size)

\* Mutant of section_targets: the quorum is counted before we are excluded.
section_targets_counting_self(info, id) ==
    Ok(WithoutName(ElderValues(info), id), Len(ElderValues(info)))

\* Section(target_name), the closest section being ours or a neighbour: its
\* elders but us.
section_targets(info, id) ==
    LET section == WithoutName(ElderValues(info), id)
    IN  Ok(section, Len(section))

\* Mutant of direct_targets: Direct gets no targets, without an error.
direct_no_targets == Ok(<<>>, 0)

\* DstLocation::Direct
direct_targets == CannotRoute

\* delivery_targets: [result, trace], trace being the iterations of the loop
\* of candidates where it is called and empty elsewhere.
delivery_targets(dst, id, members, map) ==
    LET plain(r) == [result |-> r, trace |-> <<>>]
    IN  IF ~is_elder(map, id) THEN plain(non_elder_targets(map))
        ELSE CASE dst.kind = "Node" ->
                      IF dst.name = id THEN plain(node_self_targets)
                      ELSE LET node == get_peer(dst.name, members, map)
                           IN  IF node # None
                               THEN plain(known_peer_targets(node[1]))
                               ELSE candidates(dst.name, id, map)
               [] dst.kind = "Section" ->
                      LET info == closest(map, dst.name)
                      IN  IF \/ info.prefix = Our(map).prefix
                             \/ is_neighbour(info.prefix, Our(map).prefix)
                          THEN plain(section_targets(info, id))
                          ELSE candidates(dst.name, id, map)
               [] dst.kind = "Direct" -> plain(direct_targets)

\* Mutant of signature_targets: the list is cut without being sorted.
signature_targets_unsorted(dst, elders) ==
    IF dst.kind = "Direct" THEN <<>>
    ELSE SubSeq(elders, 1, Min(Len(elders), delivery_group_size(Len(elders))))

\* Mutant of signature_targets: with Direct, the first elders are given.
signature_targets_direct_first(dst, elders) ==
    IF dst.kind = "Direct"
    THEN SubSeq(elders, 1, Min(Len(elders), delivery_group_size(Len(elders))))
    ELSE LET list == sort_by_distance(dst.name, elders)
         IN  SubSeq(list, 1, Min(Len(list), delivery_group_size(Len(list))))

\* signature_targets
signature_targets(dst, elders) ==
    IF dst.kind = "Direct" THEN <<>>
    ELSE LET list == sort_by_distance(dst.name, elders)
         IN  SubSeq(list, 1, Min(Len(list), delivery_group_size(Len(list))))

---------------------------------------------------------------------------
(* The states delivery_targets is called in.                               *)

\* The names a prefix matches.
Matching(p) == {n \in Names : Matches(p, n)}

\* The k lowest names of S (all of S when it has fewer).
Lowest(S, k) ==
    LET names == SetToSeq(S)
    IN  {names[i] : i \in 1..Min(k, Len(names))}

\* Sizes of the elder set of our section: a lone elder up to a full section.
ElderCounts == {1, 2, 3, ELDER_SIZE}

\* Sizes of the elder set of a neighbour.
NeighbourElderCounts == {1, ELDER_SIZE}

\* The elder sets of a section of prefix p, of the sizes in counts: all
\* compatible with p, of at most ELDER_SIZE names.
ElderSets(p, counts) == {Lowest(Matching(p), k) : k \in counts}

\* EldersInfo { prefix, elders }
EldersInfo(p, names) ==
    [prefix |-> p, elders |-> [n \in names |-> Peer(n, 0)]]

\* Our prefix: XOR distance is invariant under flipping a bit of every
\* name, so the prefixes of zeros stand for all.
OurPrefixes == {p \in Prefixes : \A i \in 1..Len(p) : p[i] = 0}

\* The sets of neighbour prefixes: pairwise disjoint, each a neighbour of
\* ours.
NeighbourPrefixSets(p) ==
    {Q \in SUBSET {q \in Prefixes : is_neighbour(q, p)} :
        \A q1, q2 \in Q : q1 = q2 \/ ~IsCompatible(q1, q2)}

NeighbourMaps(p) ==
    UNION {
        {[q \in Q |-> EldersInfo(q, e[q])] :
            e \in {f \in [Q -> UNION {ElderSets(q, NeighbourElderCounts) :
                                           q \in Q}] :
                      \A q \in Q : f[q] \in ElderSets(q, NeighbourElderCounts)}} :
        Q \in NeighbourPrefixSets(p)}

SectionMaps ==
    UNION {
        {[our |-> EldersInfo(p, e), neighbours |-> nb] :
            e \in ElderSets(p, ElderCounts), nb \in NeighbourMaps(p)} :
        p \in OurPrefixes}

\* Our name: the lowest name of our section is always one of its elders,
\* the others are or are not.
OurIds == {0, 1, 3}

\* MemberInfo { peer, state }
MemberInfo(n, a) == [peer |-> Peer(n, a), state |-> "Joined"]

\* The member table of our section: its elders and ourself, or these with
\* further adults, under the address a.
MemberTables(map, id) ==
    LET core == DOMAIN Our(map).elders \cup {id}
        more == core \cup (Matching(Our(map).prefix) \cap OurIds)
    IN  {[n \in core |-> MemberInfo(n, 0)], [n \in more |-> MemberInfo(n, 1)]}

\* DstLocation
Dsts == {Node(n) : n \in Names} \cup {Section(n) : n \in Names} \cup {Direct}

NoCall == [op |-> "none"]

\* The selector is called by an approved node; it reads and sends nothing
\* of the node but the arguments.
NodeIdle ==
    /\ state = "Approved"
    /\ events = <<>>
    /\ adult = <<>>
    /\ pool = {}

Init ==
    /\ sections \in SectionMaps
    /\ our_id \in OurIds \cap Matching(Our(sections).prefix)
    /\ our_members \in MemberTables(sections, our_id)
    /\ call = NoCall
    /\ result = <<>>
    /\ loop = <<>>
    /\ NodeIdle

\* A call of delivery_targets(dst, our_id, our_members, sections).
DeliveryTargets(dst) ==
    LET r == delivery_targets(dst, our_id, our_members, sections)
    IN  /\ call = NoCall
        /\ call' = [op |-> "delivery_targets", dst |-> dst]
        /\ result' = r.result
        /\ loop' = r.trace
        /\ UNCHANGED <<sections, our_id, our_members, node_vars>>

Next == \E dst \in Dsts : DeliveryTargets(dst)

Spec == Init /\ [][Next]_vars

---------------------------------------------------------------------------
(* signature_targets over any list of elders.                              *)

\* A section map of a lone node, for the calls that read no section map.
LoneMap == [our |-> EldersInfo(<<>>, {0}), neighbours |-> <<>>]

\* The peers of the names S, by ascending name.
PeersOf(S) ==
    LET names == SetToSeq(S)
    IN  [i \in 1..Len(names) |-> Peer(names[i], 0)]

Reverse(seq) == [i \in 1..Len(seq) |-> seq[Len(seq) + 1 - i]]

\* The elder lists: any peers of the pool, by ascending or descending name.
ElderLists ==
    UNION {{PeersOf(S), Reverse(PeersOf(S))} :
               S \in SUBSET (0..(Min(SigPoolSize, 2^NameBits) - 1))}

InitSig ==
    /\ sections = LoneMap
    /\ our_id = 0
    /\ our_members = [n \in {0} |-> MemberInfo(n, 0)]
    /\ call = NoCall
    /\ result = <<>>
    /\ loop = <<>>
    /\ NodeIdle

\* A call of signature_targets(dst, elders).
SignatureTargets(dst, elders) ==
    /\ call = NoCall
    /\ call' = [op |-> "signature_targets", dst |-> dst, elders |-> elders]
    /\ result' = signature_targets(dst, elders)
    /\ UNCHANGED <<sections, our_id, our_members, loop, node_vars>>

\* The arguments are drawn only where a call can be made.
NextSig ==
    \E dst \in Dsts, elders \in (IF call = NoCall THEN ElderLists ELSE {}) :
        SignatureTargets(dst, elders)

SpecSig == InitSig /\ [][NextSig]_vars

---------------------------------------------------------------------------
(* delivery_group_size over every usize.                                   *)

InitSize == InitSig

\* A call of delivery_group_size(n).
DeliveryGroupSize(n) ==
    /\ call = NoCall
    /\ call' = [op |-> "delivery_group_size", n |-> n]
    /\ result' = delivery_group_size(n)
    /\ UNCHANGED <<sections, our_id, our_members, loop, node_vars>>

NextSize == \E n \in 0..UsizeMax : DeliveryGroupSize(n)

SpecSize == InitSize /\ [][NextSize]_vars

---------------------------------------------------------------------------
(* node/stage/mod.rs: the stage of a node.  The states themselves          *)
(* (Bootstrapping, Joining, Approved) are other modules: what their        *)
(* handlers return is an input of the stage.                               *)

\* section::MIN_AGE
MIN_AGE == 4

\* Longest queue of events followed.
MaxEvents == 3

\* Event
Connected(how) == [event |-> "Connected", how |-> how]
PromotedToElder == [event |-> "PromotedToElder"]
MessageReceived == [event |-> "MessageReceived"]

\* MemberInfo::joined
joined(peer, age) == [peer |-> peer, state |-> "Joined", age |-> age]

\* Prefix::default: the empty prefix, which every name matches.
Prefix_default == <<>>

\* SharedState { sections, our_members }
SharedState(map, members) == [sections |-> map, our_members |-> members]

\* Bootstrapping and Joining hold no shared state.
NoSharedState ==
    SharedState([our |-> EldersInfo(Prefix_default, {}), neighbours |-> <<>>],
                <<>>)

\* Mutant of create_first_elders_info: the first section has no elder yet.
create_first_elders_info_empty(peer) ==
    [prefix |-> Prefix_default, elders |-> <<>>]

\* create_first_elders_info: the one elder, under the default prefix.
create_first_elders_info(peer) ==
    [prefix |-> Prefix_default, elders |-> [n \in {peer.name} |-> peer]]

\* create_first_shared_state: the section map of the first section, every
\* elder of it a joined member of age MIN_AGE.
create_first_shared_state(elders_info) ==
    SharedState([our |-> elders_info, neighbours |-> <<>>],
                [n \in DOMAIN elders_info.elders |->
                     joined(elders_info.elders[n], MIN_AGE)])

\* Stage { state } with the shared state of an approved node and the events
\* its node_info sent.
Stage(st, shared_state, sent) ==
    [state |-> st, shared_state |-> shared_state, events |-> sent]

\* Stage::first_node
first_node(name) ==
    LET peer == Peer(name, 0)
        elders_info == create_first_elders_info(peer)
        shared_state == create_first_shared_state(elders_info)
    IN  Stage("Approved", shared_state,
              <<Connected("First"), PromotedToElder>>)

\* Stage::bootstrap
bootstrap(name) == Stage("Bootstrapping", NoSharedState, <<>>)

\* DstLocation::contains
contains(dst, name, prefix) ==
    CASE dst.kind = "Node" -> dst.name = name
      [] dst.kind = "Section" -> Matches(prefix, dst.name)
      [] dst.kind = "Direct" -> TRUE

\* DstLocation::is_section
is_section(dst) == dst.kind = "Section"

\* Message: its destination and what it carries.
Message(dst, variant) == [dst |-> dst, variant |-> variant]

\* Result<()> of a call of the stage, with the steps the call went through.
StageOk(did) == [ok |-> TRUE, did |-> did]
StageErr(e, did) == [ok |-> FALSE, err |-> e, did |-> did]

\* Mutant of in_dst_location_unapproved: a section too is our location.
in_dst_location_any_section(dst, name) ==
    CASE dst.kind = "Node" -> dst.name = name
      [] dst.kind = "Section" -> TRUE
      [] dst.kind = "Direct" -> TRUE

\* in_dst_location of a node that is Bootstrapping or Joining.
in_dst_location_unapproved(dst, name) ==
    CASE dst.kind = "Node" -> dst.name = name
      [] dst.kind = "Section" -> FALSE
      [] dst.kind = "Direct" -> TRUE

\* Mutant of must_relay: what is for us is never relayed.
must_relay_if_not_ours(is_dst_location, dst) == ~is_dst_location

\* Mutant of must_relay: only what is for a section is relayed.
must_relay_sections_only(is_dst_location, dst) == is_section(dst)

\* in_dst_location of an approved node: the test for relaying the message.
must_relay(is_dst_location, dst) == ~is_dst_location \/ is_section(dst)

\* Stage::in_dst_location: whether the message is for us, and whether it is
\* relayed on the way.
in_dst_location(stage, name, msg) ==
    IF stage.state \in {"Bootstrapping", "Joining"}
    THEN [relay |-> FALSE,
          is_dst_location |-> in_dst_location_unapproved(msg.dst, name)]
    ELSE LET is_dst_location ==
                 contains(msg.dst, name, stage.shared_state.sections.our.prefix)
         IN  [relay |-> must_relay(is_dst_location, msg.dst),
              is_dst_location |-> is_dst_location]

\* Mutant of next_state: a bootstrapping node is approved at once.
next_state_skipping_join(st) ==
    CASE st = "Bootstrapping" -> "Approved"
      [] st = "Joining" -> "Approved"
      [] st = "Approved" -> "Bootstrapping"

\* The State a handler's Some(next) is wrapped in.
next_state(st) ==
    CASE st = "Bootstrapping" -> "Joining"
      [] st = "Joining" -> "Approved"
      [] st = "Approved" -> "Bootstrapping"

\* Mutant of process_message: an approved node hands the message to the
\* local handler before it relays it.
process_message_handling_first(stage, name, msg, relayed, handled) ==
    LET loc == in_dst_location(stage, name, msg)
        did == (IF loc.is_dst_location THEN <<"handle">> ELSE <<>>)
                   \o (IF loc.relay THEN <<"relay">> ELSE <<>>)
        next == IF loc.is_dst_location /\ handled.ok /\ handled.new # None
                THEN Stage(next_state(stage.state), handled.new[1],
                           stage.events)
                ELSE stage
    IN  IF loc.is_dst_location /\ ~handled.ok
        THEN [stage |-> stage, result |-> StageErr("handler", <<"handle">>)]
        ELSE IF loc.relay /\ ~relayed.ok
        THEN [stage |-> next, result |-> StageErr("relay", did)]
        ELSE [stage |-> next, result |-> StageOk(did)]

\* Stage::process_message.  relayed is what relay_message returns if it is
\* called, handled what the state's process_message returns if it is
\* called: [ok |-> TRUE, new |-> None or Some(shared state of the next
\* state)] or [ok |-> FALSE].
process_message(stage, name, msg, relayed, handled) ==
    LET loc == in_dst_location(stage, name, msg)
        relay == IF loc.relay THEN <<"relay">> ELSE <<>>
    IN  IF loc.relay /\ ~relayed.ok
        THEN [stage |-> stage, result |-> StageErr("relay", relay)]
        ELSE IF ~loc.is_dst_location
        THEN [stage |-> stage, result |-> StageOk(relay)]
        ELSE IF ~handled.ok
        THEN [stage |-> stage,
              result |-> StageErr("handler", relay \o <<"handle">>)]
        ELSE IF handled.new = None
        THEN [stage |-> stage, result |-> StageOk(relay \o <<"handle">>)]
        ELSE [stage |-> Stage(next_state(stage.state), handled.new[1],
                              stage.events),
              result |-> StageOk(relay \o <<"handle">>)]

\* Mutant of process_timeout: the timeout of a joining node puts it back to
\* Bootstrapping.
process_timeout_rebootstrapping(stage, token, handled) ==
    [stage |-> IF stage.state = "Joining"
               THEN Stage("Bootstrapping", NoSharedState, stage.events)
               ELSE stage,
     result |-> IF handled.ok THEN StageOk(<<"timeout">>)
                ELSE StageErr("handler", <<"timeout">>)]

\* Stage::process_timeout: handled is the Result<()> of the state's
\* process_timeout, which is returned as it is.
process_timeout(stage, token, handled) ==
    [stage |-> stage,
     result |-> IF handled.ok THEN StageOk(<<"timeout">>)
                ELSE StageErr("handler", <<"timeout">>)]

\* Mutant of send_message: a joining node sends user messages too.
send_message_once_joining(stage, dst, sent) ==
    IF stage.state \in {"Approved", "Joining"}
    THEN IF sent.ok THEN StageOk(<<"send_user_message">>)
         ELSE StageErr("send", <<"send_user_message">>)
    ELSE StageErr("InvalidState", <<>>)

\* Stage::send_message: sent is the Result<()> of send_user_message.
send_message(stage, dst, sent) ==
    IF stage.state = "Approved"
    THEN IF sent.ok THEN StageOk(<<"send_user_message">>)
         ELSE StageErr("send", <<"send_user_message">>)
    ELSE StageErr("InvalidState", <<>>)

\* Stage::send_event
send_event(stage, event) ==
    Stage(stage.state, stage.shared_state, Append(stage.events, event))

\* The names of the nodes that start, and of the destinations they hear
\* of: the two lowest names and the lowest name of the other half.
StageIds == {0, 1}
StageNames == {0, 1, 2^(NameBits - 1)}

StageDsts ==
    {Node(n) : n \in StageNames} \cup {Section(n) : n \in StageNames}
        \cup {Direct}

\* What a message carries, as far as the states tell it apart.
Variants == {"BootstrapResponse", "NodeApproval", "Relocate", "UserMessage"}

Messages == {Message(dst, variant) : dst \in StageDsts, variant \in Variants}

\* Timer tokens.
Tokens == {0, 1}

\* Result<()> of a callee.
Results == {[ok |-> TRUE], [ok |-> FALSE]}

\* The shared state a node is approved with: it is an adult of the section
\* of its approver, which is the whole network or the half of the zeros.
JoinedSharedStates(name) ==
    LET elder == 1 - name
        far == 2^(NameBits - 1)
        members == [n \in {elder, name} |-> MemberInfo(n, 0)]
    IN  {SharedState([our |-> EldersInfo(<<>>, {elder}), neighbours |-> <<>>],
                     members),
         SharedState([our |-> EldersInfo(<<0>>, {elder}),
                      neighbours |->
                          [q \in {<<1>>} |-> EldersInfo(q, {far})]],
                     members)}

\* What the process_message of the current state can return: an error,
\* nothing, or the next state if the message is the one that state waits
\* for (a bootstrap response, the approval of the node, its relocation).
HandlerResults(stage, name, msg) ==
    {[ok |-> FALSE], [ok |-> TRUE, new |-> None]} \cup
    CASE stage.state = "Bootstrapping" /\ msg.variant = "BootstrapResponse" ->
             {[ok |-> TRUE, new |-> Some(NoSharedState)]}
      [] stage.state = "Joining" /\ msg.variant = "NodeApproval" ->
             {[ok |-> TRUE, new |-> Some(shared_state)] :
                  shared_state \in JoinedSharedStates(name)}
      [] stage.state = "Approved" /\ msg.variant = "Relocate" ->
             {[ok |-> TRUE, new |-> Some(NoSharedState)]}
      [] OTHER -> {}

\* The stage the variables hold, and the variables holding a stage.
CurrentStage == Stage(state, SharedState(sections, our_members), events)

SetStage(stage) ==
    /\ state' = stage.state
    /\ sections' = stage.shared_state.sections
    /\ our_members' = stage.shared_state.our_members
    /\ events' = stage.events
    /\ UNCHANGED <<adult, pool>>

\* A node after Stage::first_node or Stage::bootstrap returned it.
InitStage ==
    \E name \in StageIds, constructor \in {"first_node", "bootstrap"} :
        LET stage == IF constructor = "first_node" THEN first_node(name)
                     ELSE bootstrap(name)
        IN  /\ our_id = name
            /\ state = stage.state
            /\ sections = stage.shared_state.sections
            /\ our_members = stage.shared_state.our_members
            /\ events = stage.events
            /\ call = [op |-> constructor]
            /\ result = StageOk(<<>>)
            /\ loop = <<>>
            /\ adult = <<>>
            /\ pool = {}

\* A call of process_message(sender, msg).
ProcessMessage(msg, relayed, handled) ==
    LET r == process_message(CurrentStage, our_id, msg, relayed, handled)
    IN  /\ call' = [op |-> "process_message", state |-> state, msg |-> msg,
                    our |-> Our(sections), relayed |-> relayed]
        /\ result' = r.result
        /\ SetStage(r.stage)
        /\ UNCHANGED <<our_id, loop>>

\* A call of process_timeout(token).
ProcessTimeout(token, handled) ==
    LET r == process_timeout(CurrentStage, token, handled)
    IN  /\ call' = [op |-> "process_timeout", state |-> state,
                    token |-> token]
        /\ result' = r.result
        /\ SetStage(r.stage)
        /\ UNCHANGED <<our_id, loop>>

\* A call of send_message(src, dst, content).
SendMessage(dst, sent) ==
    /\ call' = [op |-> "send_message", state |-> state, dst |-> dst]
    /\ result' = send_message(CurrentStage, dst, sent)
    /\ UNCHANGED <<sections, our_id, our_members, loop, node_vars>>

\* A call of send_event(event).
SendEvent(event) ==
    /\ Len(events) < MaxEvents
    /\ call' = [op |-> "send_event", state |-> state, event |-> event]
    /\ result' = StageOk(<<>>)
    /\ SetStage(send_event(CurrentStage, event))
    /\ UNCHANGED <<our_id, loop>>

NextStage ==
    \/ \E msg \in Messages, relayed \in Results :
           \E handled \in HandlerResults(CurrentStage, our_id, msg) :
               ProcessMessage(msg, relayed, handled)
    \/ \E token \in Tokens, handled \in Results :
           ProcessTimeout(token, handled)
    \/ \E dst \in StageDsts, sent \in Results : SendMessage(dst, sent)
    \/ SendEvent(MessageReceived)

SpecStage == InitStage /\ [][NextStage]_vars

\* The last call is one of the stage, made in the state st.
StageCall(op, st) == call.op = op /\ call.state = st

---------------------------------------------------------------------------
(* states/adult/mod.rs: the Adult state.  The chain, the message filter,   *)
(* the signature accumulator and the trust check are other modules.        *)

\* Highest parsec version of a genesis info.
MaxVersion == 2

\* Number of elders of the section of the adult.
AdultElderCount == 4

\* The elders of our section, by name; the adult has the name 0.
AdultElders == 1..AdultElderCount

\* GenesisPfxInfo { parsec_version, .. }
GenesisPfxInfo(v) == [parsec_version |-> v]

\* MessageContent
UserMessage == [content |-> "UserMessage"]
GenesisUpdate(info) == [content |-> "GenesisUpdate", info |-> info]

\* The proof of a signed message: the index of the section key that signed
\* it, and whether the signature is one of that key.
SectionProof(key, valid) == [key |-> key, valid |-> valid]

\* SignedRoutingMessage
SignedRoutingMessage(dst, content, proof) ==
    [dst |-> dst, content |-> content, proof |-> proof]

\* Chain::new: the chain of a genesis info knows the prefix and the elders
\* of the section, and the section keys up to that of the info.
Chain(gen_pfx_info) ==
    [our_prefix |-> <<0>>, our_elders |-> AdultElders,
     keys |-> gen_pfx_info.parsec_version]

\* SignedRoutingMessage::verify
verify(msg, chain) ==
    IF ~msg.proof.valid THEN [ok |-> FALSE, err |-> "FailedSignature"]
    ELSE IF msg.proof.key <= chain.keys
    THEN [ok |-> TRUE, status |-> "Full"]
    ELSE [ok |-> TRUE, status |-> "ProofTooNew"]

\* Result<Transition, RoutingError>
Stay == [ok |-> TRUE, transition |-> "Stay"]
RoutingError(e) == [ok |-> FALSE, err |-> e]

\* RoutingMessageFilter::new
RoutingMessageFilter_new == [incoming |-> {}, outgoing |-> {}]

\* RoutingMessageFilter::filter_incoming: notes the message, and tells
\* whether it is new.
filter_incoming(filter, msg) ==
    [filter |-> [filter EXCEPT !.incoming = @ \cup {msg}],
     is_new |-> msg \notin filter.incoming]

\* RoutingMessageFilter::filter_outgoing: notes the message as sent to the
\* node, and tells whether it is new to it.
filter_outgoing(filter, msg, id) ==
    [filter |-> [filter EXCEPT !.outgoing = @ \cup {<<msg, id>>}],
     is_new |-> <<msg, id>> \notin filter.outgoing]

\* Base::in_location: the destination is our name, or a section of our
\* prefix.
in_location(dst, id, chain) == contains(dst, id, chain.our_prefix)

\* What a handler of the adult leaves: the adult, what the handler
\* returned, and the messages it sent, as <<recipient, message>>.
Handled(a, ret, sent) == [adult |-> a, ret |-> ret, sent |-> sent]

\* ParsecMap::init, ParsecMap::with_init: the map gets the parsec instance
\* of the version of the genesis info.
init(parsec_map, gen_pfx_info) ==
    parsec_map \cup {gen_pfx_info.parsec_version}

\* Mutant of handle_genesis_update: an update of any version is taken.
handle_genesis_update_any_version(a, gen_pfx_info) ==
    Handled([a EXCEPT !.gen_pfx_info = gen_pfx_info,
                      !.parsec_map = init(@, gen_pfx_info),
                      !.chain = Chain(gen_pfx_info),
                      !.routing_msg_backlog = <<>>,
                      !.direct_msg_backlog = <<>>],
            Stay, <<>>)

\* Adult::handle_genesis_update
handle_genesis_update(a, gen_pfx_info) ==
    IF gen_pfx_info.parsec_version <= a.gen_pfx_info.parsec_version
    THEN Handled(a, Stay, <<>>)
    ELSE Handled([a EXCEPT !.gen_pfx_info = gen_pfx_info,
                           !.parsec_map = init(@, gen_pfx_info),
                           !.chain = Chain(gen_pfx_info),
                           !.routing_msg_backlog = <<>>,
                           !.direct_msg_backlog = <<>>],
                 Stay, <<>>)

\* Mutant of send_signed_message_to_elders: every elder gets the message,
\* new to it or not.
send_signed_message_to_elders_anew(a, msg) ==
    LET targets == SetToSeq(a.chain.our_elders)
        outgoing == a.routing_msg_filter.outgoing
                        \cup {<<msg, e>> : e \in a.chain.our_elders}
        noted == [a.routing_msg_filter EXCEPT !.outgoing = outgoing]
    IN  Handled([a EXCEPT !.routing_msg_filter =
                              filter_incoming(noted, msg).filter],
                [ok |-> TRUE],
                [i \in 1..Len(targets) |-> <<targets[i], msg>>])

\* Adult::send_signed_message_to_elders: to the elders the message is new
\* to, by name; the message is then noted as seen.
send_signed_message_to_elders(a, msg) ==
    LET new_to == {e \in a.chain.our_elders :
                      filter_outgoing(a.routing_msg_filter, msg, e).is_new}
        targets == SetToSeq(new_to)
        outgoing == a.routing_msg_filter.outgoing
                        \cup {<<msg, e>> : e \in a.chain.our_elders}
        noted == [a.routing_msg_filter EXCEPT !.outgoing = outgoing]
    IN  Handled([a EXCEPT !.routing_msg_filter =
                              filter_incoming(noted, msg).filter],
                [ok |-> TRUE],
                [i \in 1..Len(targets) |-> <<targets[i], msg>>])

\* Mutant of verify_signed_message: a proof that is too new is trusted.
verify_signed_message_trusting(a, msg) ==
    LET status == verify(msg, a.chain)
    IN  IF ~status.ok THEN RoutingError(status.err) ELSE [ok |-> TRUE]

\* Adult::verify_signed_message
verify_signed_message(a, msg) ==
    LET status == verify(msg, a.chain)
    IN  IF ~status.ok THEN RoutingError(status.err)
        ELSE IF status.status = "Full" THEN [ok |-> TRUE]
        ELSE RoutingError("UntrustedMessage")

\* Mutant of handle_filtered_signed_message: what is for us is kept, and
\* not forwarded.
handle_filtered_signed_message_keeping(a, id, msg) ==
    LET here == in_location(msg.dst, id, a.chain)
        verified == verify_signed_message(a, msg)
    IN  IF here /\ msg.content.content = "GenesisUpdate"
        THEN IF ~verified.ok THEN Handled(a, verified, <<>>)
             ELSE handle_genesis_update(a, msg.content.info)
        ELSE IF here
        THEN Handled([a EXCEPT !.routing_msg_backlog = Append(@, msg)],
                     Stay, <<>>)
        ELSE LET r == send_signed_message_to_elders(a, msg)
             IN  Handled(r.adult, Stay, r.sent)

\* Adult::handle_filtered_signed_message
handle_filtered_signed_message(a, id, msg) ==
    LET here == in_location(msg.dst, id, a.chain)
        verified == verify_signed_message(a, msg)
        backlogged ==
            IF here
            THEN [a EXCEPT !.routing_msg_backlog = Append(@, msg)]
            ELSE a
    IN  IF here /\ msg.content.content = "GenesisUpdate"
        THEN IF ~verified.ok THEN Handled(a, verified, <<>>)
             ELSE handle_genesis_update(a, msg.content.info)
        ELSE LET r == send_signed_message_to_elders(backlogged, msg)
             IN  Handled(r.adult, Stay, r.sent)

\* Mutant of handle_signed_message: a message whose handling failed is
\* forgotten.
handle_signed_message_forgetting(a, id, msg) ==
    LET seen == filter_incoming(a.routing_msg_filter, msg)
        r == handle_filtered_signed_message(
                 [a EXCEPT !.routing_msg_filter = seen.filter], id, msg)
    IN  IF ~seen.is_new
        THEN Handled([a EXCEPT !.routing_msg_filter = seen.filter], Stay, <<>>)
        ELSE IF r.ret.ok THEN r
        ELSE Handled(a, r.ret, r.sent)

\* Mutant of handle_signed_message: no look at the filter.
handle_signed_message_unfiltered(a, id, msg) ==
    handle_filtered_signed_message(
        [a EXCEPT !.routing_msg_filter =
                      filter_incoming(a.routing_msg_filter, msg).filter],
        id, msg)

\* Adult::handle_signed_message
handle_signed_message(a, id, msg) ==
    LET seen == filter_incoming(a.routing_msg_filter, msg)
    IN  IF ~seen.is_new
        THEN Handled([a EXCEPT !.routing_msg_filter = seen.filter], Stay, <<>>)
        ELSE handle_filtered_signed_message(
                 [a EXCEPT !.routing_msg_filter = seen.filter], id, msg)

\* Adult::handle_hop_message
handle_hop_message(a, id, msg) == handle_signed_message(a, id, msg)

\* The threshold of a key set of n shares: the ceiling of 2n / 3.
threshold(n) == (2 * n + 2) \div 3

\* SignatureAccumulator::new
SignatureAccumulator_new == [shares |-> {}, done |-> {}]

\* The indices of the shares held for a message.
held(acc, msg) == {sh[2] : sh \in {x \in acc.shares : x[1] = msg}}

\* SignatureAccumulator::add_proof: the share of the index for the message
\* is kept unless the message is done; the message is done, and returned,
\* once the shares of threshold(n) indices are held.
add_proof(acc, msg, index, n) ==
    LET indices == held(acc, msg) \cup {index}
    IN  IF msg \in acc.done THEN [acc |-> acc, signed_msg |-> None]
        ELSE IF Cardinality(indices) >= threshold(n)
        THEN [acc |-> [shares |-> {x \in acc.shares : x[1] # msg},
                       done |-> acc.done \cup {msg}],
              signed_msg |-> Some(msg)]
        ELSE [acc |-> [acc EXCEPT !.shares = @ \cup {<<msg, index>>}],
              signed_msg |-> None]

\* Mutant of handle_message_signature: the message is handled with every
\* share of it.
handle_message_signature_eager(a, id, msg, index, pub_id) ==
    LET r == add_proof(a.sig_accumulator, msg, index,
                       Cardinality(a.chain.our_elders))
    IN  handle_signed_message([a EXCEPT !.sig_accumulator = r.acc], id, msg)

\* Adult::handle_message_signature: the share is used whoever sent it.
handle_message_signature(a, id, msg, index, pub_id) ==
    LET r == add_proof(a.sig_accumulator, msg, index,
                       Cardinality(a.chain.our_elders))
        accumulated == [a EXCEPT !.sig_accumulator = r.acc]
    IN  IF r.signed_msg # None
        THEN handle_signed_message(accumulated, id, r.signed_msg[1])
        ELSE Handled(accumulated, Stay, <<>>)

\* Timer: a timer that has scheduled nothing yet, as the number of tokens
\* it has given.
Timer_new == 0

\* Timer::schedule: the tokens are given in ascending order.
schedule(timer) == [timer |-> timer + 1, token |-> timer]

\* Adult::new, with the details of a node that has just joined: nothing
\* is seen or kept yet, the node is connected to the elders of its section,
\* and the knowledge timer runs.
Adult_new(gen_pfx_info) ==
    [chain |-> Chain(gen_pfx_info),
     gen_pfx_info |-> gen_pfx_info,
     routing_msg_backlog |-> <<>>,
     direct_msg_backlog |-> <<>>,
     sig_accumulator |-> SignatureAccumulator_new,
     routing_msg_filter |-> RoutingMessageFilter_new,
     event_backlog |-> <<>>,
     parsec_map |-> init({}, gen_pfx_info),
     peers |-> AdultElders,
     timer |-> schedule(Timer_new).timer,
     knowledge_timer_token |-> schedule(Timer_new).token]

\* Where the signed messages go: our name, or a section that is not ours.
AdultDsts == {Node(0), Section(2^(NameBits - 1))}

\* The proofs: of the first key, of the second, and a forged one.
SectionProofs ==
    {SectionProof(0, TRUE), SectionProof(1, TRUE), SectionProof(0, FALSE)}

MessageContents ==
    {UserMessage} \cup {GenesisUpdate(GenesisPfxInfo(v)) : v \in 1..MaxVersion}

SignedRoutingMessages ==
    {SignedRoutingMessage(dst, content, proof) :
         dst \in AdultDsts, content \in MessageContents,
         proof \in SectionProofs}

\* Any one or two signed messages are in flight.
Pools == {{m1, m2} : m1, m2 \in SignedRoutingMessages}

\* An adult that has just been made, and the messages that can reach it.
AdultStarts(pools) ==
    /\ sections = LoneMap
    /\ our_id = 0
    /\ our_members = [n \in {0} |-> MemberInfo(n, 0)]
    /\ state = "Approved"
    /\ events = <<>>
    /\ adult = Adult_new(GenesisPfxInfo(0))
    /\ pool \in pools
    /\ call = [op |-> "new"]
    /\ result = <<>>
    /\ loop = <<>>

\* What a call of a handler of the adult leaves in the variables.
AdultHandled(r) ==
    /\ result' = [ret |-> r.ret, sent |-> r.sent]
    /\ adult' = r.adult
    /\ UNCHANGED <<sections, our_id, our_members, loop, state, events, pool>>

\* A call of handle_hop_message(msg).
HandleHopMessage(msg) ==
    /\ call' = [op |-> "handle_hop_message", msg |-> msg, before |-> adult]
    /\ AdultHandled(handle_hop_message(adult, our_id, msg))

\* A call of handle_message_signature(msg, pub_id), msg carrying the share
\* of the index.
HandleMessageSignature(msg, index, pub_id) ==
    /\ call' = [op |-> "handle_message_signature", msg |-> msg,
                index |-> index, before |-> adult]
    /\ AdultHandled(handle_message_signature(adult, our_id, msg, index, pub_id))

InitAdult == AdultStarts(Pools)

NextAdult == \E msg \in pool : HandleHopMessage(msg)

SpecAdult == InitAdult /\ [][NextAdult]_vars

\* The messages signed share by share: a user message for us with one for
\* another section, or with a genesis update for us.
SharedPools ==
    LET here == SignedRoutingMessage(Node(0), UserMessage,
                                     SectionProof(0, TRUE))
        away == SignedRoutingMessage(Section(2^(NameBits - 1)), UserMessage,
                                     SectionProof(0, TRUE))
        update == SignedRoutingMessage(Node(0),
                                       GenesisUpdate(GenesisPfxInfo(1)),
                                       SectionProof(0, TRUE))
    IN  {{here, away}, {here, update}}

\* Who sends a share: an elder of ours, or a node that is none.
ShareSenders == {1, AdultElderCount + 1}

InitShares == AdultStarts(SharedPools)

NextShares ==
    \/ \E msg \in pool : HandleHopMessage(msg)
    \/ \E msg \in pool, index \in 0..(AdultElderCount - 1),
           pub_id \in ShareSenders :
           HandleMessageSignature(msg, index, pub_id)

SpecShares == InitShares /\ [][NextShares]_vars

---------------------------------------------------------------------------
(* The life of an adult: its timer, its relocation and the events of the   *)
(* consensus.  What a handler returns other than Stay is a transition the  *)
(* state machine makes before it calls another handler.                    *)

\* Highest token the timer of the model gives.
MaxToken == 3

\* P2pNode::connection_info of the node of a name.
connection_info(n) == [peer_addr |-> n]

\* SignedRelocateDetails: who is relocated, and whether the signature of
\* the details is one of our section.
SignedRelocateDetails(pub_id, signed) == [pub_id |-> pub_id, signed |-> signed]

\* Approved::check_signed_relocation_details
check_signed_relocation_details(a, details) == details.signed

\* Transition
Relocate(details, conn_infos) ==
    [ok |-> TRUE, transition |-> "Relocate", details |-> details,
     conn_infos |-> conn_infos]
IntoElder(old_pfx) ==
    [ok |-> TRUE, transition |-> "IntoElder", old_pfx |-> old_pfx]

\* Approved::send_member_knowledge: our knowledge goes to every elder of
\* our section.
send_member_knowledge(a) ==
    LET targets == SetToSeq(a.chain.our_elders)
    IN  [i \in 1..Len(targets) |->
             <<targets[i],
               [content |-> "MemberKnowledge",
                parsec_version |-> a.gen_pfx_info.parsec_version]>>]

\* Mutant of handle_timeout: the knowledge is sent on every token.
handle_timeout_any_token(a, token) ==
    LET scheduled == schedule(a.timer)
    IN  Handled([a EXCEPT !.timer = scheduled.timer,
                          !.knowledge_timer_token = scheduled.token],
                Stay, send_member_knowledge(a))

\* Adult::handle_timeout
handle_timeout(a, token) ==
    IF a.knowledge_timer_token = token
    THEN LET scheduled == schedule(a.timer)
         IN  Handled([a EXCEPT !.timer = scheduled.timer,
                               !.knowledge_timer_token = scheduled.token],
                     Stay, send_member_knowledge(a))
    ELSE Handled(a, Stay, <<>>)

\* Mutant of handle_relocate: the signature of the details is not looked at.
handle_relocate_unchecked(a, id, details) ==
    IF details.pub_id # id THEN Handled(a, Stay, <<>>)
    ELSE Handled([a EXCEPT !.peers = {}],
                 Relocate(details,
                          [i \in 1..Len(SetToSeq(a.chain.our_elders)) |->
                               connection_info(SetToSeq(a.chain.our_elders)[i])]),
                 <<>>)

\* Adult::handle_relocate
handle_relocate(a, id, details) ==
    IF details.pub_id # id THEN Handled(a, Stay, <<>>)
    ELSE IF ~check_signed_relocation_details(a, details)
    THEN Handled(a, Stay, <<>>)
    ELSE LET elders == SetToSeq(a.chain.our_elders)
             conn_infos == [i \in 1..Len(elders) |-> connection_info(elders[i])]
         IN  Handled([a EXCEPT !.peers = {}],
                     Relocate(details, conn_infos), <<>>)

\* Adult::relocate: the bootstrapping peer keeps the timer, and is given
\* where to bootstrap and the details of the relocation.
relocate(a, conn_infos, details) ==
    [state |-> "BootstrappingPeer",
     details |-> [timer |-> a.timer, peers |-> a.peers],
     conn_infos |-> conn_infos, relocate_details |-> details]

\* ElderDetails, as into_elder fills them but for the message filter: the
\* fields of the adult, and an empty queue of routing messages.
ElderDetails(a, routing_msg_filter) ==
    [chain |-> a.chain,
     peers |-> a.peers,
     event_backlog |-> a.event_backlog,
     gen_pfx_info |-> a.gen_pfx_info,
     routing_msg_queue |-> <<>>,
     routing_msg_backlog |-> a.routing_msg_backlog,
     direct_msg_backlog |-> a.direct_msg_backlog,
     sig_accumulator |-> a.sig_accumulator,
     parsec_map |-> a.parsec_map,
     routing_msg_filter |-> routing_msg_filter,
     timer |-> a.timer]

\* Mutant of into_elder: the elder keeps the message filter too.
into_elder_keeping_filter(a, old_pfx) ==
    [state |-> "Elder", details |-> ElderDetails(a, a.routing_msg_filter),
     old_pfx |-> old_pfx]

\* Adult::into_elder: the elder keeps what the adult had, but for the
\* message filter, which is a new one.
into_elder(a, old_pfx) ==
    [state |-> "Elder",
     details |-> ElderDetails(a, RoutingMessageFilter_new),
     old_pfx |-> old_pfx]

\* Chain::is_self_elder
is_self_elder(chain, id) == id \in chain.our_elders

\* Mutant of handle_section_info_event: every section info promotes.
handle_section_info_event_promoting(a, id, old_pfx) ==
    Handled(a, IntoElder(old_pfx), <<>>)

\* Adult::handle_section_info_event
handle_section_info_event(a, id, old_pfx) ==
    IF is_self_elder(a.chain, id) THEN Handled(a, IntoElder(old_pfx), <<>>)
    ELSE Handled(a, Stay, <<>>)

\* The events of the consensus the adult has a handler for, other than the
\* section info.
ConsensusEvents ==
    {"RelocatePolled", "PromoteAndDemoteElders", "MemberAdded",
     "MemberRemoved", "MemberRelocated", "DkgResult", "NeighbourInfo",
     "RelocatePrepare", "TheirKeyInfo", "SendAckMessage", "Prune"}

\* Adult::handle_relocate_polled, handle_promote_and_demote_elders,
\* handle_member_added, handle_member_removed, handle_member_relocated,
\* handle_dkg_result_event, handle_neighbour_info_event,
\* handle_relocate_prepare_event, handle_their_key_info_event,
\* handle_send_ack_message_event, handle_prune_event: nothing is done.
handle_event(a, event) == Handled(a, [ok |-> TRUE], <<>>)

\* Who the details of a relocation are about: us, or another node.
RelocateDetails ==
    {SignedRelocateDetails(pub_id, signed) :
         pub_id \in {0, 1}, signed \in BOOLEAN}

\* The elders a section info of our section can name: those we began
\* with, these but the last one, or these with us in its place.
ElderChanges ==
    {AdultElders, AdultElders \ {AdultElderCount},
     (AdultElders \ {AdultElderCount}) \cup {0}}

\* The adult is in charge, and no transition is to be made.
AdultRuns ==
    /\ state = "Adult"
    /\ result.ret.ok => ("transition" \in DOMAIN result.ret
                             => result.ret.transition = "Stay")

\* A call of handle_timeout(token).
HandleTimeout(token) ==
    /\ AdultRuns
    /\ adult.knowledge_timer_token = token => adult.timer <= MaxToken
    /\ call' = [op |-> "handle_timeout", token |-> token, before |-> adult]
    /\ AdultHandled(handle_timeout(adult, token))

\* A call of handle_relocate(details).
HandleRelocate(details) ==
    /\ AdultRuns
    /\ call' = [op |-> "handle_relocate", details |-> details,
                before |-> adult]
    /\ AdultHandled(handle_relocate(adult, our_id, details))

\* The consensus decides a section info of our section: the chain takes
\* its elders, and handle_section_info_event(old_pfx) is called.
HandleSectionInfoEvent(elders, old_pfx) ==
    LET polled == [adult EXCEPT !.chain.our_elders = elders]
    IN  /\ AdultRuns
        /\ call' = [op |-> "handle_section_info_event", old_pfx |-> old_pfx,
                    before |-> polled]
        /\ AdultHandled(handle_section_info_event(polled, our_id, old_pfx))

\* The consensus decides another event: its handler is called.
HandleEvent(event) ==
    /\ AdultRuns
    /\ call' = [op |-> "handle_event", event |-> event, before |-> adult]
    /\ AdultHandled(handle_event(adult, event))

\* The state machine makes the transition the last handler returned.
ApplyTransition ==
    LET ret == result.ret
        next == IF ret.transition = "Relocate"
                THEN relocate(adult, ret.conn_infos, ret.details)
                ELSE into_elder(adult, ret.old_pfx)
    IN  /\ state = "Adult"
        /\ ret.ok
        /\ "transition" \in DOMAIN ret
        /\ ret.transition \in {"Relocate", "IntoElder"}
        /\ call' = [op |-> "transition", transition |-> ret.transition,
                    before |-> adult]
        /\ state' = next.state
        /\ adult' = next
        /\ result' = [ret |-> Stay, sent |-> <<>>]
        /\ UNCHANGED <<sections, our_id, our_members, loop, events, pool>>

InitLife ==
    /\ sections = LoneMap
    /\ our_id = 0
    /\ our_members = [n \in {0} |-> MemberInfo(n, 0)]
    /\ state = "Adult"
    /\ events = <<>>
    /\ adult = Adult_new(GenesisPfxInfo(0))
    /\ pool = {}
    /\ call = [op |-> "new"]
    /\ result = [ret |-> Stay, sent |-> <<>>]
    /\ loop = <<>>

NextLife ==
    \/ \E token \in 0..MaxToken : HandleTimeout(token)
    \/ \E details \in RelocateDetails : HandleRelocate(details)
    \/ \E elders \in ElderChanges, old_pfx \in {<<>>, <<0>>} :
           HandleSectionInfoEvent(elders, old_pfx)
    \/ \E event \in ConsensusEvents : HandleEvent(event)
    \/ ApplyTransition

SpecLife == InitLife /\ [][NextLife]_vars

---------------------------------------------------------------------------
(* The direct messages of an adult, and the replay of its backlogs when it *)
(* has become an adult.                                                    *)

\* Most messages of a backlog an adult is made with.
MaxBacklog == 2

\* DirectMessage.  What the handling of a parsec request or response
\* yields is decided by the consensus, and is given with the message: the
\* transition Stay, the one into an elder, or an error.
MessageSignature(msg, index) ==
    [kind |-> "MessageSignature", msg |-> msg, index |-> index]
ParsecRequest(yields) == [kind |-> "ParsecRequest", yields |-> yields]
BootstrapRequest(name) == [kind |-> "BootstrapRequest", name |-> name]
RelocateMessage(details) == [kind |-> "Relocate", details |-> details]
PlainMessage(kind) == [kind |-> kind]

\* BootstrapResponse
Join(info) == [response |-> "Join", info |-> info]
Rebootstrap(conn_infos) ==
    [response |-> "Rebootstrap", conn_infos |-> conn_infos]

\* Chain::our_info: the elders of our section under its prefix.
our_info(chain) == [prefix |-> chain.our_prefix, elders |-> chain.our_elders]

\* Adult::closest_known_elders_to: the elders of our section, whatever the
\* name is.
closest_known_elders_to(a, name) == a.chain.our_elders

\* Mutant of handle_bootstrap_request: every requester is told to join us.
handle_bootstrap_request_joining(a, p2p_node, destination) ==
    Handled(a, Stay,
            <<<<connection_info(p2p_node),
                [content |-> "BootstrapResponse",
                 response |-> Join(our_info(a.chain))]>>>>)

\* Adult::handle_bootstrap_request, with the Ok(Transition::Stay) of its
\* arm of handle_direct_message.
handle_bootstrap_request(a, p2p_node, destination) ==
    LET elders == SetToSeq(closest_known_elders_to(a, destination))
        response ==
            IF Matches(a.chain.our_prefix, destination)
            THEN Join(our_info(a.chain))
            ELSE Rebootstrap([i \in 1..Len(elders) |->
                                  connection_info(elders[i])])
    IN  Handled(a, Stay,
                <<<<connection_info(p2p_node),
                    [content |-> "BootstrapResponse",
                     response |-> response]>>>>)

\* Approved::handle_parsec_request, handle_parsec_response
handle_parsec_message(a, yields) ==
    CASE yields = "Stay" -> Handled(a, Stay, <<>>)
      [] yields = "IntoElder" -> Handled(a, IntoElder(a.chain.our_prefix), <<>>)
      [] yields = "Err" -> Handled(a, RoutingError("Parsec"), <<>>)

\* Adult::handle_direct_message
handle_direct_message(a, id, msg, p2p_node) ==
    CASE msg.kind = "MessageSignature" ->
             handle_message_signature(a, id, msg.msg, msg.index, p2p_node)
      [] msg.kind \in {"ParsecRequest", "ParsecResponse"} ->
             handle_parsec_message(a, msg.yields)
      [] msg.kind = "BootstrapRequest" ->
             handle_bootstrap_request(a, p2p_node, msg.name)
      [] msg.kind = "ConnectionResponse" -> Handled(a, Stay, <<>>)
      [] msg.kind = "Relocate" -> handle_relocate(a, id, msg.details)
      [] msg.kind = "BootstrapResponse" -> Handled(a, Stay, <<>>)
      [] msg.kind \in {"JoinRequest", "MemberKnowledge"} ->
             Handled([a EXCEPT !.direct_msg_backlog =
                                   Append(@, <<p2p_node, msg>>)],
                     Stay, <<>>)

\* What a replay has come to: the adult, the transition, the messages sent
\* and the messages handed to a handler, in the order of the handling.
Replayed(a, transition, sent, handled) ==
    [adult |-> a, ret |-> transition, sent |-> sent, handled |-> handled]

\* The transition after a handler returned: the one it gave, or the one
\* before if it failed.
Taken(transition, ret) == IF ret.ok THEN ret ELSE transition

RECURSIVE replay_direct(_, _, _)
\* The first loop of finish_handle_transition (lines 498-507), over what is
\* left of the direct messages taken from the backlog.
replay_direct(r, id, backlog) ==
    IF backlog = <<>> THEN r
    ELSE LET pub_id == Head(backlog)[1]
             msg == Head(backlog)[2]
             h == handle_direct_message(r.adult, id, msg, pub_id)
         IN  IF r.ret = Stay
             THEN replay_direct(
                      Replayed(h.adult, Taken(r.ret, h.ret), r.sent \o h.sent,
                               Append(r.handled, Head(backlog))),
                      id, Tail(backlog))
             ELSE replay_direct(
                      Replayed([r.adult EXCEPT !.direct_msg_backlog =
                                                   Append(@, Head(backlog))],
                               r.ret, r.sent, r.handled),
                      id, Tail(backlog))

RECURSIVE replay_routing(_, _, _)
\* The second loop of finish_handle_transition (lines 509-526), over what
\* is left of the routing messages taken from the backlog.
replay_routing(r, id, backlog) ==
    IF backlog = <<>> THEN r
    ELSE LET msg == Head(backlog)
             h == handle_filtered_signed_message(r.adult, id, msg)
         IN  IF r.ret = Stay
             THEN replay_routing(
                      Replayed(h.adult, Taken(r.ret, h.ret), r.sent \o h.sent,
                               Append(r.handled, msg)),
                      id, Tail(backlog))
             ELSE replay_routing(
                      Replayed([r.adult EXCEPT !.routing_msg_backlog =
                                                   Append(@, msg)],
                               r.ret, r.sent, r.handled),
                      id, Tail(backlog))

\* Mutant of finish_handle_transition: the routing messages are replayed
\* whatever the direct ones came to.
finish_handle_transition_routing_anyway(a, id) ==
    LET direct ==
            replay_direct(
                Replayed([a EXCEPT !.direct_msg_backlog = <<>>], Stay,
                         <<>>, <<>>),
                id, a.direct_msg_backlog)
    IN  replay_routing(
            [direct EXCEPT !.adult.routing_msg_backlog = <<>>, !.ret = Stay],
            id, direct.adult.routing_msg_backlog)

\* Adult::finish_handle_transition
finish_handle_transition(a, id) ==
    LET direct ==
            replay_direct(
                Replayed([a EXCEPT !.direct_msg_backlog = <<>>], Stay,
                         <<>>, <<>>),
                id, a.direct_msg_backlog)
    IN  replay_routing(
            [direct EXCEPT !.adult.routing_msg_backlog = <<>>],
            id, direct.adult.routing_msg_backlog)

\* The routing messages of the backlogs: a user message for us, one for
\* another section, a genesis update for us and a forged one.
BacklogRoutingMessages ==
    {SignedRoutingMessage(Node(0), UserMessage, SectionProof(0, TRUE)),
     SignedRoutingMessage(Section(2^(NameBits - 1)), UserMessage,
                          SectionProof(0, TRUE)),
     SignedRoutingMessage(Node(0), GenesisUpdate(GenesisPfxInfo(1)),
                          SectionProof(0, TRUE)),
     SignedRoutingMessage(Node(0), GenesisUpdate(GenesisPfxInfo(1)),
                          SectionProof(0, FALSE))}

\* The direct messages of the backlogs.
BacklogDirectMessages ==
    {RelocateMessage(SignedRelocateDetails(0, TRUE)),
     RelocateMessage(SignedRelocateDetails(0, FALSE)),
     BootstrapRequest(2^(NameBits - 1)),
     PlainMessage("JoinRequest"),
     ParsecRequest("Err"),
     ParsecRequest("IntoElder")}

\* The backlogs an adult is made with: those of the details.
Backlogs(messages) == UNION {[1..n -> messages] : n \in 0..MaxBacklog}

\* Adult::new with backlogs in its details, the elder 1 having sent the
\* direct messages.
InitReplay ==
    /\ sections = LoneMap
    /\ our_id = 0
    /\ our_members = [n \in {0} |-> MemberInfo(n, 0)]
    /\ state = "Adult"
    /\ events = <<>>
    /\ \E direct \in Backlogs(BacklogDirectMessages),
          routing \in Backlogs(BacklogRoutingMessages) :
           adult = [Adult_new(GenesisPfxInfo(0)) EXCEPT
                       !.direct_msg_backlog =
                           [i \in 1..Len(direct) |-> <<1, direct[i]>>],
                       !.routing_msg_backlog = routing]
    /\ pool = BacklogRoutingMessages
    /\ call = [op |-> "new"]
    /\ result = [ret |-> Stay, sent |-> <<>>]
    /\ loop = <<>>

\* The call of finish_handle_transition the state machine makes once the
\* node has become an adult.
FinishHandleTransition ==
    LET r == finish_handle_transition(adult, our_id)
    IN  /\ state = "Adult"
        /\ call.op = "new"
        /\ call' = [op |-> "finish_handle_transition", before |-> adult]
        /\ result' = [ret |-> r.ret, sent |-> r.sent, handled |-> r.handled]
        /\ adult' = r.adult
        /\ UNCHANGED <<sections, our_id, our_members, loop, state, events,
                       pool>>

\* A hop message comes once the backlogs were replayed.
HopAfterReplay(msg) ==
    /\ AdultRuns
    /\ call.op # "new"
    /\ HandleHopMessage(msg)

NextReplay ==
    \/ FinishHandleTransition
    \/ \E msg \in pool : HopAfterReplay(msg)
    \/ ApplyTransition

SpecReplay == InitReplay /\ [][NextReplay]_vars

---------------------------------------------------------------------------
(* An adult among its direct messages, its hop messages and the section    *)
(* infos that make it an elder.                                            *)

\* The direct messages that come to the adult.
DirectMessages ==
    {BootstrapRequest(0), BootstrapRequest(2^(NameBits - 1)),
     PlainMessage("JoinRequest"), PlainMessage("MemberKnowledge"),
     PlainMessage("ConnectionResponse"), PlainMessage("BootstrapResponse"),
     ParsecRequest("Stay"),
     [kind |-> "ParsecResponse", yields |-> "IntoElder"],
     RelocateMessage(SignedRelocateDetails(0, TRUE))}
        \cup {MessageSignature(
                  SignedRoutingMessage(Node(0), UserMessage,
                                       SectionProof(0, TRUE)), 0)}

\* A call of handle_direct_message(msg, p2p_node).
HandleDirectMessage(msg, p2p_node) ==
    /\ AdultRuns
    /\ Len(adult.direct_msg_backlog) < MaxBacklog
    /\ call' = [op |-> "handle_direct_message", msg |-> msg,
                p2p_node |-> p2p_node, before |-> adult]
    /\ AdultHandled(handle_direct_message(adult, our_id, msg, p2p_node))

\* Adult::new: the events of the details are kept in the backlog.
InitDirect ==
    /\ sections = LoneMap
    /\ our_id = 0
    /\ our_members = [n \in {0} |-> MemberInfo(n, 0)]
    /\ state = "Adult"
    /\ events = <<>>
    /\ \E event_backlog \in {<<>>, <<Connected("First")>>} :
           adult = [Adult_new(GenesisPfxInfo(0)) EXCEPT
                       !.event_backlog = event_backlog]
    /\ pool = {SignedRoutingMessage(Node(0), UserMessage,
                                     SectionProof(0, TRUE))}
    /\ call = [op |-> "new"]
    /\ result = [ret |-> Stay, sent |-> <<>>]
    /\ loop = <<>>

NextDirect ==
    \/ \E msg \in DirectMessages :
           HandleDirectMessage(msg, AdultElderCount + 1)
    \/ \E msg \in pool : AdultRuns /\ HandleHopMessage(msg)
    \/ \E elders \in ElderChanges :
           HandleSectionInfoEvent(elders, <<>>)
    \/ ApplyTransition

SpecDirect == InitDirect /\ [][NextDirect]_vars

---------------------------------------------------------------------------
(* messages/get_group_key_response.rs: the merge of the responses to a     *)
(* request for the keys of a group.  A key, a pair of a DhtId and a        *)
(* PublicSignKey in the program, is a number here.                         *)

\* types::GROUP_SIZE, which is at least 13 in the program.
GROUP_SIZE == 2

\* Number of keys the responses are made of, most keys of one response, and
\* most responses merged with one.
MergeKeyCount == 3
MaxKeysLen == 2
MaxOthers == 2

\* GetGroupKeyResponse { target_id, public_sign_keys }
GetGroupKeyResponse(target_id, public_sign_keys) ==
    [target_id |-> target_id, public_sign_keys |-> public_sign_keys]

\* Histogram::new: no key is counted.
Histogram_new == [k \in {} |-> 0]

\* Histogram::update: the key is counted once more.
update(histogram, key) ==
    IF key \in DOMAIN histogram
    THEN [histogram EXCEPT ![key] = @ + 1]
    ELSE [k \in DOMAIN histogram \cup {key} |->
             IF k = key THEN 1 ELSE histogram[k]]

RECURSIVE update_all(_, _)
\* The loops of merge over the keys of a response (lines 51-53, 57-59).
update_all(histogram, keys) ==
    IF keys = <<>> THEN histogram
    ELSE update_all(update(histogram, Head(keys)), Tail(keys))

RECURSIVE update_responses(_, _)
\* The loop of merge over the other responses (lines 55-60), none of which
\* is of another target.
update_responses(histogram, responses) ==
    IF responses = <<>> THEN histogram
    ELSE update_responses(
             update_all(histogram, Head(responses).public_sign_keys),
             Tail(responses))

\* Histogram::sort_by_highest: the keys with their counts, highest count
\* first; the order of keys of one count is any.
sort_by_highest(histogram) ==
    LET keys == DOMAIN histogram
        n == Cardinality(keys)
    IN  {[i \in 1..n |-> <<order[i], histogram[order[i]]>>] :
             order \in {o \in [1..n -> keys] :
                           /\ \A i, j \in 1..n : i # j => o[i] # o[j]
                           /\ \A i, j \in 1..n :
                                  i < j => histogram[o[i]] >= histogram[o[j]]}}

\* What merge ends with: an Option, or the panic of a failed assertion at
\* the line given.
Returned(option) == [panic |-> FALSE, value |-> option]
Panicked(line) == [panic |-> TRUE, line |-> line]

\* GetGroupKeyResponse::merge, sort_by_highest having given the sorted
\* keys.
merge(self, others, sorted) ==
    LET taken == SubSeq(sorted, 1, Min(GROUP_SIZE, Len(sorted)))
    IN  IF \E i \in 1..Len(others) : others[i].target_id # self.target_id
        THEN Returned(None)
        ELSE IF \E i \in 1..Len(taken) : ~(taken[i][2] <= GROUP_SIZE)
        THEN Panicked(69)
        ELSE IF Len(taken) # GROUP_SIZE THEN Panicked(77)
        ELSE Returned(Some(GetGroupKeyResponse(
                 self.target_id, [i \in 1..Len(taken) |-> taken[i][1]])))

\* The histogram merge sorts: of the keys of self and of the others.
merge_histogram(self, others) ==
    update_responses(update_all(Histogram_new, self.public_sign_keys), others)

\* The responses: to a request of one of two targets, with any keys.
KeyLists ==
    UNION {[1..n -> 1..MergeKeyCount] : n \in 0..MaxKeysLen}
Responses ==
    {GetGroupKeyResponse(target_id, keys) :
         target_id \in {0, 1}, keys \in KeyLists}
ResponseLists == UNION {[1..n -> Responses] : n \in 0..MaxOthers}

InitMerge == InitSig

\* A call of self.merge(others).
Merge(self, others, sorted) ==
    /\ call = NoCall
    /\ call' = [op |-> "merge", self |-> self, others |-> others]
    /\ result' = merge(self, others, sorted)
    /\ UNCHANGED <<sections, our_id, our_members, loop, node_vars>>

\* The arguments are drawn only where a call can be made.
NextMerge ==
    \E self \in (IF call = NoCall THEN Responses ELSE {}) :
        \E others \in ResponseLists :
            \E sorted \in sort_by_highest(merge_histogram(self, others)) :
                Merge(self, others, sorted)

SpecMerge == InitMerge /\ [][NextMerge]_vars

---------------------------------------------------------------------------
(* vote.rs: a vote, the payload of which is signed.  The signatures are    *)
(* those of a scheme nobody forges: a signature is made of the secret key  *)
(* and of the bytes signed, and the public key of a pair verifies the      *)
(* signatures of its secret key only.                                      *)

\* Number of key pairs, and of bits of a digest (256 in the program).
KeyPairCount == 4
DigestBits == 3

\* sign::gen_keypair: the i-th pair of a public and a secret key.
gen_keypair(i) == [public |-> 2 * i, secret |-> 2 * i + 1]

\* serialisation::serialise of a digest: its bits, first the highest.
serialise(payload) ==
    [ok |-> TRUE,
     data |-> [i \in 1..DigestBits |->
                   (payload \div 2^(DigestBits - i)) % 2]]

\* sign::sign_detached
sign_detached(data, secret_key) == [key |-> secret_key, data |-> data]

\* sign::verify_detached
verify_detached(signature, data, public_key) ==
    /\ signature.key = public_key + 1
    /\ signature.data = data

\* Vote::new
Vote_new(secret_key, payload) ==
    LET serialised == serialise(payload)
    IN  IF ~serialised.ok THEN [ok |-> FALSE, err |-> "Serialisation"]
        ELSE [ok |-> TRUE,
              vote |-> [payload |-> payload,
                        signature |-> sign_detached(serialised.data,
                                                    secret_key)]]

\* Vote::payload
payload(vote) == vote.payload

\* Mutant of validate_signature: the signature is checked for the payload
\* only.
validate_signature_of_any_key(vote, public_key) ==
    LET serialised == serialise(vote.payload)
    IN  serialised.ok /\ vote.signature.data = serialised.data

\* Vote::validate_signature
validate_signature(vote, public_key) ==
    LET serialised == serialise(vote.payload)
    IN  IF serialised.ok
        THEN verify_detached(vote.signature, serialised.data, public_key)
        ELSE FALSE

KeyPairs == {gen_keypair(i) : i \in 1..KeyPairCount}
Digests == 0..(2^DigestBits - 1)

InitVote == InitSig

\* A call of Vote::new(secret_key, payload).
VoteNew(secret_key, digest) ==
    /\ call = NoCall
    /\ call' = [op |-> "Vote::new", secret_key |-> secret_key,
                payload |-> digest]
    /\ result' = Vote_new(secret_key, digest)
    /\ UNCHANGED <<sections, our_id, our_members, loop, node_vars>>

\* A call of validate_signature(public_key) of the vote just created.
ValidateSignature(public_key) ==
    /\ call.op = "Vote::new"
    /\ result.ok
    /\ call' = [op |-> "validate_signature", public_key |-> public_key,
                vote |-> result.vote, created |-> call]
    /\ result' = [valid |-> validate_signature(result.vote, public_key)]
    /\ UNCHANGED <<sections, our_id, our_members, loop, node_vars>>

\* A call of payload() of the vote just created.
Payload ==
    /\ call.op = "Vote::new"
    /\ result.ok
    /\ call' = [op |-> "payload", vote |-> result.vote, created |-> call]
    /\ result' = [payload |-> payload(result.vote)]
    /\ UNCHANGED <<sections, our_id, our_members, loop, node_vars>>

NextVote ==
    \/ \E keys \in KeyPairs, digest \in Digests : VoteNew(keys.secret, digest)
    \/ \E keys \in KeyPairs : ValidateSignature(keys.public)
    \/ Payload

SpecVote == InitVote /\ [][NextVote]_vars

---------------------------------------------------------------------------
(* Properties of the delivery-group selector.                              *)

\* The elements of a sequence.
Range(seq) == {seq[i] : i \in 1..Len(seq)}

\* No element occurs twice.
NoRepeat(seq) == Cardinality(Range(seq)) = Len(seq)

\* delivery_targets was called, by an elder or by a node that is none.
CalledAsElder ==
    call.op = "delivery_targets" /\ our_id \in DOMAIN sections.our.elders
CalledAsNonElder ==
    call.op = "delivery_targets" /\ our_id \notin DOMAIN sections.our.elders

\* The peers of a section's elders other than the name id.
EldersBut(info, id) == {info.elders[n] : n \in DOMAIN info.elders \ {id}}

\* Name t is in our member table, or an elder of a known section.
KnownMember(t) == t \in DOMAIN our_members
KnownElder(t) == \E info \in AllSections(sections) : t \in DOMAIN info.elders

\* The closest known section to t is ours or a neighbour of ours.
ClosestIsNear(t) ==
    LET S == closest(sections, t)
    IN  \/ S.prefix = sections.our.prefix
        \/ is_neighbour(S.prefix, sections.our.prefix)

\* The call went through candidates.
OnCandidatesPath ==
    /\ CalledAsElder
    /\ \/ /\ call.dst.kind = "Node"
          /\ call.dst.name # our_id
          /\ ~KnownMember(call.dst.name)
          /\ ~KnownElder(call.dst.name)
       \/ /\ call.dst.kind = "Section"
          /\ ~ClosestIsNear(call.dst.name)

RelayToNeighbourScenario ==
    /\ CalledAsElder
    /\ sections.our.prefix = <<0, 0>>
    /\ <<1>> \in DOMAIN sections.neighbours
    /\ Cardinality(DOMAIN sections.neighbours[<<1>>].elders) = 7
    /\ call.dst.kind = "Section"
    /\ Matches(<<1, 1>>, call.dst.name)

\* The k peers of info's elders closest to t: no other elder is closer to t
\* than one of them.
IsClosestK(targets, info, t, k) ==
    /\ Len(targets) = k
    /\ NoRepeat(targets)
    /\ Range(targets) \subseteq Range(ElderValues(info))
    /\ \A x \in Range(ElderValues(info)) \ Range(targets) :
           \A y \in Range(targets) : Xor(t, y.name) < Xor(t, x.name)

RECURSIVE Accumulated(_, _)
\* The elders of the first i of the sections, in their order.
Accumulated(sorted, i) ==
    IF i = 0 THEN <<>>
    ELSE Accumulated(sorted, i - 1) \o ElderValues(sorted[i])

\* C3: candidates walks the known sections by increasing distance to t,
\* accumulating their elders with quorum delivery_group_size(size of the
\* current section); an iteration is the last one exactly when the current
\* section is ours (then we are dropped and the quorum is the number of the
\* candidates left) or idx = 0 and at least quorum candidates are there;
\* else the next section is accumulated.
C3_CandidatesWalk ==
    (call.op = "delivery_targets" /\ loop # <<>>) =>
        LET sorted == sorted_by_distance_to(sections, call.dst.name)
        IN  /\ Len(loop) <= Len(sorted)
            /\ \A i \in 1..Len(loop) :
                LET it == loop[i]
                    acc == Accumulated(sorted, i)
                    own == sorted[i].prefix = sections.our.prefix
                    quorum == (Cardinality(DOMAIN sorted[i].elders) + 2) \div 3
                IN  /\ it.idx = i - 1
                    /\ it.prefix = sorted[i].prefix
                    /\ own => /\ it.nodes = WithoutName(acc, our_id)
                              /\ it.dg_size = Len(it.nodes)
                    /\ ~own => /\ it.nodes = acc
                               /\ it.dg_size = quorum
                    /\ it.break <=>
                           (own \/ (it.idx = 0 /\ Len(acc) >= quorum))
                    /\ it.break => i = Len(loop)
                    /\ (~it.break /\ i = Len(loop)) => i = Len(sorted)

\* C3 witness: the loop stopped in its first iteration, at a section that is
\* not ours, with the quorum among the candidates.
C3_Witness ==
    /\ call.op = "delivery_targets"
    /\ Len(loop) = 1
    /\ loop[1].break
    /\ loop[1].prefix # sections.our.prefix
    /\ loop[1].idx = 0
    /\ Len(loop[1].nodes) > loop[1].dg_size

\* C4: on the candidates path the call fails with CannotRoute exactly when
\* the final quorum is 0 or fewer than quorum candidates are known, and
\* else returns Ok with the candidates and the quorum.
C4_CannotRouteIffNoQuorum ==
    OnCandidatesPath =>
        /\ loop # <<>>
        /\ LET last == loop[Len(loop)]
               unroutable ==
                   last.dg_size = 0 \/ Len(last.nodes) < last.dg_size
           IN  /\ unroutable => result = CannotRoute
               /\ ~unroutable =>
                      /\ result.ok
                      /\ Range(result.targets) = Range(last.nodes)
                      /\ Len(result.targets) = Len(last.nodes)
                      /\ result.dg_size = last.dg_size

\* C4 witness: the lone elder of its section asks for a node it does not
\* know: the quorum is 0 and the call fails.
C4_Witness ==
    /\ OnCandidatesPath
    /\ loop # <<>>
    /\ loop[Len(loop)].dg_size = 0
    /\ result = CannotRoute

\* C5: a node that is no elder of its section gets Ok with all the elders of
\* its section and dg_size their number, whatever the destination.
C5_NonElderGetsOwnElders ==
    CalledAsNonElder =>
        /\ result.ok
        /\ Range(result.targets) =
               {sections.our.elders[n] : n \in DOMAIN sections.our.elders}
        /\ NoRepeat(result.targets)
        /\ result.dg_size = Cardinality(DOMAIN sections.our.elders)

\* C5 witness: a non-elder with destination Direct gets the 3 elders of its
\* section.
C5_Witness ==
    /\ CalledAsNonElder
    /\ call.dst = Direct
    /\ result.ok
    /\ result.dg_size = 3
    /\ Len(result.targets) = 3

\* C6: an elder's delivery_targets(Node(t)), t not our name and known as a
\* member of our section or as an elder of a known section, returns that one
\* peer with quorum 1: the peer of the member table where t is in it, else
\* the peer of the elder set.
C6_KnownNodeIsTheTarget ==
    (CalledAsElder /\ call.dst.kind = "Node" /\ call.dst.name # our_id
        /\ (KnownMember(call.dst.name) \/ KnownElder(call.dst.name))) =>
        LET t == call.dst.name
            peer == IF KnownMember(t) THEN our_members[t].peer
                    ELSE (CHOOSE info \in AllSections(sections) :
                              t \in DOMAIN info.elders).elders[t]
        IN  /\ result.ok
            /\ result.targets = <<peer>>
            /\ result.dg_size = 1

\* C6 witness: t is in the member table and in our elder set under
\* different addresses; the member table's peer is returned.
C6_Witness ==
    /\ CalledAsElder
    /\ call.dst.kind = "Node"
    /\ call.dst.name # our_id
    /\ KnownMember(call.dst.name)
    /\ call.dst.name \in DOMAIN sections.our.elders
    /\ sections.our.elders[call.dst.name] # our_members[call.dst.name].peer
    /\ result.ok
    /\ result.targets = <<our_members[call.dst.name].peer>>

\* C7: an elder's delivery_targets(Node(our name)) returns Ok with no target
\* and quorum 0.
C7_OwnNameNoTargets ==
    (CalledAsElder /\ call.dst.kind = "Node" /\ call.dst.name = our_id) =>
        /\ result.ok
        /\ result.targets = <<>>
        /\ result.dg_size = 0

\* C7 witness: an elder asked for its own name.
C7_Witness ==
    /\ CalledAsElder
    /\ call.dst = Node(our_id)
    /\ result.ok
    /\ Len(result.targets) = 0

\* C8: an elder's delivery_targets(Direct) returns the error CannotRoute,
\* and no targets.
C8_DirectCannotRoute ==
    (CalledAsElder /\ call.dst.kind = "Direct") =>
        /\ ~result.ok
        /\ result.err = "CannotRoute"
        /\ "targets" \notin DOMAIN result

\* C8 witness: an elder asked for Direct.
C8_Witness ==
    /\ CalledAsElder
    /\ call.dst = Direct
    /\ ~result.ok

\* C9: signature_targets(Node(d) or Section(d), E) returns exactly
\* delivery_group_size(|E|) peers of E, and no omitted elder of E is
\* strictly closer to d than a returned one.
C9_SignatureTargetsClosest ==
    (call.op = "signature_targets" /\ call.dst.kind \in {"Node", "Section"}) =>
        /\ Len(result) = delivery_group_size(Len(call.elders))
        /\ NoRepeat(result)
        /\ Range(result) \subseteq Range(call.elders)
        /\ \A x \in Range(call.elders) \ Range(result) :
               \A y \in Range(result) :
                   ~(Xor(call.dst.name, x.name) < Xor(call.dst.name, y.name))

\* C9 witness: of 7 elders the 3 closest are returned, the list not being
\* in the order of the distance.
C9_Witness ==
    /\ call.op = "signature_targets"
    /\ call.dst.kind = "Section"
    /\ Len(call.elders) = 7
    /\ Len(result) = 3
    /\ result # SubSeq(call.elders, 1, 3)

\* C10: for every n with n + 2 within usize, delivery_group_size(n) is the
\* ceiling of n / 3: 0 for n = 0, at least 1 for n >= 1, never more than n.
C10_GroupSizeIsCeiling ==
    (call.op = "delivery_group_size" /\ call.n + 2 <= UsizeMax) =>
        /\ 3 * result >= call.n
        /\ 3 * (result - 1) < call.n
        /\ call.n = 0 => result = 0
        /\ call.n >= 1 => result >= 1
        /\ result <= call.n

\* C10 witness: a section of 7 has a delivery group of 3.
C10_Witness ==
    /\ call.op = "delivery_group_size"
    /\ call.n = 7
    /\ result = 3

\* C11: whenever delivery_targets returns Ok((targets, dg_size)), whatever the
\* destination, our elder status and the section map, dg_size is at most the
\* number of returned targets.
C11_QuorumWithinTargets ==
    (call.op = "delivery_targets" /\ result.ok) =>
        result.dg_size <= Len(result.targets)

\* C11 witness: candidates stops at a closest section of 7 that is not ours:
\* 7 targets are returned for a quorum of 3, so 4 of them are spares.
C11_Witness ==
    /\ OnCandidatesPath
    /\ result.ok
    /\ Len(result.targets) = 7
    /\ result.dg_size = 3

---------------------------------------------------------------------------
(* Properties of the stage.                                                *)

\* The changes of state of the life of a node.
Lifecycle ==
    {<<"Bootstrapping", "Joining">>, <<"Joining", "Approved">>,
     <<"Approved", "Bootstrapping">>}

\* C12: over any sequence of calls of the stage, process_message among them,
\* the state changes only from Bootstrapping to Joining, from Joining to
\* Approved and from Approved to Bootstrapping: never from Bootstrapping to
\* Approved, nor from Approved to Joining.
C12_LifecycleOrder ==
    [][state' # state => <<state, state'>> \in Lifecycle]_vars

\* C12 witness: a node that started by bootstrap was approved, and a message
\* it handled as an approved node put it back to Bootstrapping.
C12_Witness ==
    /\ StageCall("process_message", "Approved")
    /\ state = "Bootstrapping"
    /\ events = <<>>

\* C13: first_node returns a node that is Approved at once, its section
\* having the empty prefix and this node as its only elder, which is also a
\* Joined member of age MIN_AGE; it has sent Connected(First) and then
\* PromotedToElder, and nothing else; no later event comes before these two.
C13_FirstNodeGenesis ==
    /\ call.op = "first_node" =>
           /\ state = "Approved"
           /\ sections.our.prefix = <<>>
           /\ DOMAIN sections.our.elders = {our_id}
           /\ sections.our.elders[our_id].name = our_id
           /\ sections.neighbours = <<>>
           /\ DOMAIN our_members = {our_id}
           /\ our_members[our_id].peer = sections.our.elders[our_id]
           /\ our_members[our_id].state = "Joined"
           /\ our_members[our_id].age = MIN_AGE
           /\ events = <<Connected("First"), PromotedToElder>>
    /\ \A i \in 1..Len(events) :
           /\ events[i] = Connected("First") => i = 1
           /\ events[i] = PromotedToElder =>
                  i = 2 /\ events[1] = Connected("First")

\* C13 witness: the first node, still Approved, has sent a third event
\* behind the two of its start.
C13_Witness ==
    /\ state = "Approved"
    /\ DOMAIN sections.our.elders = {our_id}
    /\ events = <<Connected("First"), PromotedToElder, MessageReceived>>

\* C14: send_message sends a user message only in the state Approved; in
\* Bootstrapping and in Joining it returns InvalidState, sends nothing and
\* leaves the state as it is.  A node that bootstrap returned is
\* Bootstrapping, so its send_message fails until the node is approved.
C14_SendOnlyWhenApproved ==
    /\ call.op = "bootstrap" => state = "Bootstrapping"
    /\ call.op = "send_message" =>
           /\ state = call.state
           /\ call.state \in {"Bootstrapping", "Joining"} =>
                  result = StageErr("InvalidState", <<>>)
           /\ result.did # <<>> => call.state = "Approved"
           /\ result.ok => call.state = "Approved"

\* C14 witness: a joining node was asked to send a user message and
\* answered InvalidState.
C14_Witness ==
    /\ StageCall("send_message", "Joining")
    /\ state = "Joining"
    /\ ~result.ok
    /\ result.err = "InvalidState"

\* C15 as stated: the timeout of a joining node puts it back to
\* Bootstrapping.
C15_TimeoutRebootstraps ==
    StageCall("process_timeout", "Joining") => state = "Bootstrapping"

\* C15: process_timeout hands the token to the current state and returns
\* what that returns; a joining node is still Joining afterwards, without
\* a shared state.
C15_TimeoutKeepsJoining ==
    StageCall("process_timeout", "Joining") =>
        /\ state = "Joining"
        /\ sections = NoSharedState.sections
        /\ result.did = <<"timeout">>

\* C15 witness: the timeout of a joining node was handled without error,
\* and the node is Joining.
C15_Witness ==
    /\ StageCall("process_timeout", "Joining")
    /\ result.ok
    /\ state = "Joining"

\* An approved node handled a message; its destination did or did not
\* contain the node, by dst.contains(our name, our prefix).
ApprovedGot == StageCall("process_message", "Approved")
ForUs == contains(call.msg.dst, our_id, call.our.prefix)
WasElder == our_id \in DOMAIN call.our.elders

\* C16 as stated: an approved node relays a message whose destination does
\* not contain it, does not handle it, and process_message returns Ok with
\* the state as it was.
C16_RelayedReturnsOk ==
    (ApprovedGot /\ ~ForUs) =>
        /\ result.did = <<"relay">>
        /\ result.ok
        /\ state = "Approved"

\* C16: an approved node relays a message whose destination does not
\* contain it and does not handle it; process_message returns Ok if the
\* relay succeeded and the error of the relay if not, the state and the
\* shared state being as they were.
C16_RelayedNotHandled ==
    (ApprovedGot /\ ~ForUs) =>
        /\ result.did = <<"relay">>
        /\ result.ok \/ result.err = "relay"
        /\ state = "Approved"
        /\ Our(sections) = call.our

\* C16 witness: an adult of the section of prefix 0 relayed a message for
\* the section of a name of the other half.
C16_Witness ==
    /\ ApprovedGot
    /\ ~WasElder
    /\ call.our.prefix = <<0>>
    /\ call.msg.dst = Section(2^(NameBits - 1))
    /\ result = StageOk(<<"relay">>)
    /\ state = "Approved"

\* C17 as stated: an approved node hands a message whose destination
\* contains it to the local handler; an elder relays it as well if the
\* destination is a section; a message for Node(our name) is handled and
\* never relayed.
C17_ForUsIsHandled ==
    (ApprovedGot /\ ForUs) =>
        /\ result.did[Len(result.did)] = "handle"
        /\ (is_section(call.msg.dst) /\ WasElder) => result.did[1] = "relay"
        /\ call.msg.dst = Node(our_id) => result.did = <<"handle">>

\* C17: an approved node, elder or not, first relays a message whose
\* destination is a section containing it, and hands the message to the
\* local handler unless that relay failed, in which case process_message
\* returns the error of the relay; a message for Node(our name), or a
\* Direct one, is handled and never relayed.
C17_ForUsIsHandledUnlessRelayFails ==
    (ApprovedGot /\ ForUs) =>
        IF is_section(call.msg.dst)
        THEN \/ result.did = <<"relay", "handle">>
             \/ result = StageErr("relay", <<"relay">>) /\ state = "Approved"
        ELSE result.did = <<"handle">>

\* C17 witness: the first node, an elder, relayed and then handled a message
\* for a section, its own, the network having no other.
C17_Witness ==
    /\ ApprovedGot
    /\ WasElder
    /\ is_section(call.msg.dst)
    /\ result = StageOk(<<"relay", "handle">>)

---------------------------------------------------------------------------
(* Properties of the adult.                                                *)

\* The adult handled a hop message; it had or had not seen it before.
GotHop == call.op = "handle_hop_message"
SeenBefore == call.msg \in call.before.routing_msg_filter.incoming

\* The trust check of the message handled, against the chain of that time.
TrustStatus == verify(call.msg, call.before.chain)

\* The message handled was one the adult checks the trust of: a genesis
\* update for us, not seen before.
TrustChecked ==
    /\ GotHop
    /\ ~SeenBefore
    /\ in_location(call.msg.dst, our_id, call.before.chain)
    /\ call.msg.content.content = "GenesisUpdate"

\* C18: a signed message the adult has handled is in its incoming filter
\* from then on, and handling it again through handle_hop_message or
\* handle_signed_message returns Stay and does nothing more: nothing is
\* added to the backlog, nothing is sent to an elder, and the chain and the
\* genesis info are as before.
C18_SecondHandlingIsVoid ==
    GotHop =>
        /\ call.msg \in adult.routing_msg_filter.incoming
        /\ call.before.routing_msg_filter.incoming
               \subseteq adult.routing_msg_filter.incoming
        /\ SeenBefore =>
               /\ result = [ret |-> Stay, sent |-> <<>>]
               /\ adult = call.before

\* C18 witness: a user message for us is handled for the second time; the
\* backlog holds it once.
C18_Witness ==
    /\ GotHop
    /\ SeenBefore
    /\ call.msg.dst = Node(our_id)
    /\ call.msg.content = UserMessage
    /\ adult.routing_msg_backlog = <<call.msg>>

\* C19 as stated: a message whose trust check yields ProofTooNew is kept in
\* a backlog, and is neither dropped nor rejected.
C19_ProofTooNewIsBuffered ==
    (TrustChecked /\ TrustStatus.ok /\ TrustStatus.status = "ProofTooNew") =>
        /\ result.ret.ok
        /\ call.msg \in Range(adult.routing_msg_backlog)

\* The adult handled a signature share; the indices it held for the
\* message before, with that of the share.
GotShare == call.op = "handle_message_signature"
SharesWith == held(call.before.sig_accumulator, call.msg) \cup {call.index}
DoneBefore == call.msg \in call.before.sig_accumulator.done
DoneNow == call.msg \in adult.sig_accumulator.done

\* The call went on to handle the signed message: it is in the incoming
\* filter, and was handled as handle_signed_message handles it.
WentOnToHandle ==
    LET r == handle_signed_message(
                 [call.before EXCEPT !.sig_accumulator = adult.sig_accumulator],
                 our_id, call.msg)
    IN  /\ call.msg \in adult.routing_msg_filter.incoming
        /\ adult = r.adult
        /\ result = [ret |-> r.ret, sent |-> r.sent]

\* The call did nothing but keep the share.
OnlyKeptShare ==
    /\ result = [ret |-> Stay, sent |-> <<>>]
    /\ adult = [call.before EXCEPT !.sig_accumulator = adult.sig_accumulator]

\* C20: with n elders and t the ceiling of 2n / 3, the message of a share
\* is combined and handled exactly when the share brings the indices held
\* for it to t for the first time: fewer than t indices yield nothing, a
\* share of an index already held counts once, and no share of a message
\* that was combined before yields anything.
C20_AccumulatesOnce ==
    GotShare =>
        LET t == threshold(Cardinality(call.before.chain.our_elders))
            fires == ~DoneBefore /\ Cardinality(SharesWith) >= t
            n == Cardinality(call.before.chain.our_elders)
        IN  /\ 3 * t >= 2 * n /\ 3 * (t - 1) < 2 * n
            /\ fires => DoneNow /\ WentOnToHandle
            /\ ~fires => OnlyKeptShare /\ (DoneNow <=> DoneBefore)
            /\ ~DoneNow =>
                   Cardinality(held(adult.sig_accumulator, call.msg)) < t

\* C20 witness: of 4 elders, the shares of the indices 0 and 1 were held;
\* the share of the index 2 came, and the message was combined and
\* forwarded to the elders.
C20_Witness ==
    /\ GotShare
    /\ Cardinality(call.before.chain.our_elders) = 4
    /\ held(call.before.sig_accumulator, call.msg) = {0, 1}
    /\ call.index = 2
    /\ DoneNow
    /\ Len(result.sent) = 4

---------------------------------------------------------------------------
(* Properties of the life of an adult.                                     *)

\* The last call was of the handler op.
AdultGot(op) == state = "Adult" /\ call.op = op

\* The token of the call is that of the knowledge timer.
OurToken == call.token = call.before.knowledge_timer_token

\* Who the messages of the call were sent to, and what was sent.
SentTo == {result.sent[i][1] : i \in 1..Len(result.sent)}
SentContents == {result.sent[i][2].content : i \in 1..Len(result.sent)}

\* C21: handle_timeout sends the member knowledge and schedules a new
\* knowledge timer, whose token replaces knowledge_timer_token, only when
\* the token that fired is knowledge_timer_token; with any other token it
\* changes nothing; it returns Transition::Stay in both cases.
C21_KnowledgeTimerOnItsTokenOnly ==
    AdultGot("handle_timeout") =>
        /\ result.ret = Stay
        /\ IF OurToken
           THEN /\ SentTo = call.before.chain.our_elders
                /\ SentContents = {"MemberKnowledge"}
                /\ adult.knowledge_timer_token > call.before.knowledge_timer_token
                /\ adult.knowledge_timer_token = call.before.timer
                /\ adult = [call.before EXCEPT
                                !.timer = @ + 1,
                                !.knowledge_timer_token = call.before.timer]
           ELSE /\ result.sent = <<>>
                /\ adult = call.before

\* The token of a knowledge timer that had been scheduled again fired, and
\* an older token of it fired after that.
C21_Witness ==
    /\ AdultGot("handle_timeout")
    /\ OurToken
    /\ call.token > 0
    /\ adult.knowledge_timer_token = call.token + 1
C21_WitnessOther ==
    /\ AdultGot("handle_timeout")
    /\ call.token < call.before.knowledge_timer_token

\* The connection infos of the elders of a chain, by ascending name.
ConnInfosOf(chain) ==
    LET elders == SetToSeq(chain.our_elders)
    IN  [i \in 1..Len(elders) |-> connection_info(elders[i])]

\* The state machine made the transition named.
Made(transition) == call.op = "transition" /\ call.transition = transition

\* C22: handle_relocate returns Stay and does nothing when the details are
\* not about our id or fail check_signed_relocation_details; otherwise it
\* disconnects from all peers and returns Transition::Relocate with the
\* details and the connection infos of the elders of our section as they
\* were before the disconnect, and relocate() then gives a
\* BootstrappingPeer with them.
C22_RelocateOnlyOursAndSigned ==
    /\ AdultGot("handle_relocate") =>
           IF \/ call.details.pub_id # our_id
              \/ ~check_signed_relocation_details(call.before, call.details)
           THEN /\ result.ret = Stay
                /\ result.sent = <<>>
                /\ adult = call.before
           ELSE /\ adult = [call.before EXCEPT !.peers = {}]
                /\ result.ret.transition = "Relocate"
                /\ result.ret.details = call.details
                /\ result.ret.conn_infos = ConnInfosOf(call.before.chain)
    /\ Made("Relocate") =>
           /\ state = "BootstrappingPeer"
           /\ adult.conn_infos = ConnInfosOf(call.before.chain)
           /\ adult.relocate_details.pub_id = our_id
           /\ adult.details.peers = {}

\* The adult was relocated after a section info had changed the elders of
\* its section.
C22_Witness ==
    /\ Made("Relocate")
    /\ state = "BootstrappingPeer"
    /\ call.before.chain.our_elders # AdultElders
    /\ Len(adult.conn_infos) = AdultElderCount - 1
C22_WitnessStay ==
    /\ AdultGot("handle_relocate")
    /\ call.details.pub_id = our_id
    /\ ~call.details.signed

\* What the last handler returned is a transition into an elder.
Promotes ==
    /\ result.ret.ok
    /\ "transition" \in DOMAIN result.ret
    /\ result.ret.transition = "IntoElder"

\* C23: handle_section_info_event returns Transition::IntoElder with the
\* old prefix if chain.is_self_elder(), and Stay otherwise; no other
\* handler of a consensus event of the adult gives a promotion.
C23_PromotionOnSectionInfoOnly ==
    /\ AdultGot("handle_section_info_event") =>
           /\ adult = call.before
           /\ result.ret = IF our_id \in call.before.chain.our_elders
                           THEN IntoElder(call.old_pfx)
                           ELSE Stay
    /\ AdultGot("handle_event") =>
           /\ adult = call.before
           /\ result.ret.ok
           /\ ~Promotes
    /\ Promotes => call.op = "handle_section_info_event"
    /\ Made("IntoElder") => state = "Elder"

\* A section info made us an elder; another did not.
C23_Witness ==
    /\ AdultGot("handle_section_info_event")
    /\ Promotes
    /\ our_id \in adult.chain.our_elders
C23_WitnessStay ==
    /\ AdultGot("handle_section_info_event")
    /\ call.before.chain.our_elders # AdultElders
    /\ result.ret = Stay
C23_WitnessElder == Made("IntoElder") /\ state = "Elder"

---------------------------------------------------------------------------
(* Properties of the merge of responses and of the votes.                  *)

\* merge was called, with others all of the target of self or not.
Merged == call.op = "merge"
SameTarget ==
    \A i \in 1..Len(call.others) :
        call.others[i].target_id = call.self.target_id

\* How often the key occurs in self and the others of the call.
Frequency(key) ==
    LET histogram == merge_histogram(call.self, call.others)
    IN  IF key \in DOMAIN histogram THEN histogram[key] ELSE 0

\* The keys of a response that merge returned are of descending frequency,
\* and no key left out occurs more often than one of them.
ByDescendingFrequency(keys) ==
    /\ \A i, j \in 1..Len(keys) :
           i < j => Frequency(keys[i]) >= Frequency(keys[j])
    /\ \A i \in 1..Len(keys), k \in 1..MergeKeyCount :
           k \notin Range(keys) => Frequency(keys[i]) >= Frequency(k)

\* C24: merge returns None if one of the other responses is of another
\* target_id than self; otherwise it returns Some response of the
\* target_id of self with exactly GROUP_SIZE keys, taken by descending
\* frequency over self and the others.
C24_MergeReturnsGroupSizeKeys ==
    Merged =>
        /\ ~result.panic
        /\ IF ~SameTarget THEN result.value = None
           ELSE /\ result.value # None
                /\ result.value[1].target_id = call.self.target_id
                /\ Len(result.value[1].public_sign_keys) = GROUP_SIZE
                /\ NoRepeat(result.value[1].public_sign_keys)
                /\ ByDescendingFrequency(result.value[1].public_sign_keys)

\* What of C24 the code does keep: None for another target, and whenever
\* it returns Some, GROUP_SIZE keys by descending frequency.
C24_MergeWhenItReturns ==
    (Merged /\ ~result.panic) =>
        IF ~SameTarget THEN result.value = None
        ELSE /\ result.value # None
             /\ result.value[1].target_id = call.self.target_id
             /\ Len(result.value[1].public_sign_keys) = GROUP_SIZE
             /\ NoRepeat(result.value[1].public_sign_keys)
             /\ ByDescendingFrequency(result.value[1].public_sign_keys)

\* merge returned a group whose first key is in every response and whose
\* last is in one only.
C24_Witness ==
    /\ Merged
    /\ ~result.panic
    /\ result.value # None
    /\ call.others # <<>>
    /\ Frequency(result.value[1].public_sign_keys[1]) = Len(call.others) + 1
    /\ Frequency(result.value[1].public_sign_keys[GROUP_SIZE]) = 1

\* merge failed an assertion: too few keys, or a key counted too often.
C24_WitnessTooFew == Merged /\ result.panic /\ result.line = 77
C24_WitnessTooOften == Merged /\ result.panic /\ result.line = 69

\* The public key of the pair of a secret key.
PublicOf(secret_key) ==
    (CHOOSE keys \in KeyPairs : keys.secret = secret_key).public

\* C25: a vote created with a secret key over a payload validates under
\* the public key of the pair and under the public key of no other pair,
\* and payload() gives the payload it was created with.
C25_VoteValidatesUnderItsKeyOnly ==
    /\ call.op = "validate_signature" =>
           (result.valid <=>
                call.public_key = PublicOf(call.created.secret_key))
    /\ call.op = "payload" => result.payload = call.created.payload
    /\ call.op = "Vote::new" =>
           (result.ok /\ result.vote.payload = call.payload)

\* A vote was found valid under its key, and not under another.
C25_Witness == call.op = "validate_signature" /\ result.valid
C25_WitnessWrongKey ==
    /\ call.op = "validate_signature"
    /\ call.public_key # PublicOf(call.created.secret_key)
    /\ ~result.valid
C25_WitnessPayload == call.op = "payload" /\ result.payload > 0

---------------------------------------------------------------------------
(* Further properties of the delivery-group selector.                      *)

\* candidates was called: its loop went through an iteration.
CandidatesCalled == call.op = "delivery_targets" /\ loop # <<>>

\* The peers candidates has to give for the target t: the elders of the
\* closest known section, but for ourself if the section is ours.
ClosestElders(t) ==
    LET S == closest(sections, t)
    IN  IF S.prefix = sections.our.prefix
        THEN EldersBut(S, our_id)
        ELSE {S.elders[n] : n \in DOMAIN S.elders}

\* C26: the peers candidates returns are elders of one section only, the
\* closest to the target, without ourself when the section is ours; the
\* elders of a second section are never accumulated, as the loop ends in
\* its first iteration.
C26_CandidatesOfOneSection ==
    CandidatesCalled =>
        /\ Len(loop) = 1
        /\ loop[1].break
        /\ loop[1].prefix = closest(sections, call.dst.name).prefix
        /\ Range(loop[1].nodes) = ClosestElders(call.dst.name)
        /\ result.ok => Range(result.targets) = ClosestElders(call.dst.name)

\* candidates gave the elders of the closest section, another section with
\* elders of its own being known.
C26_Witness ==
    /\ CandidatesCalled
    /\ result.ok
    /\ loop[1].prefix # sections.our.prefix
    /\ \E info \in AllSections(sections) :
           /\ info.prefix # loop[1].prefix
           /\ DOMAIN info.elders # {}
           /\ \A n \in DOMAIN info.elders :
                  info.elders[n] \notin Range(result.targets)

\* The distance of the i-th target of the result to the name t.
TargetDistance(t, i) == Xor(t, result.targets[i].name)

\* C27: whenever candidates returns Ok, the peers are in the order of
\* non-decreasing XOR distance to the target, so that the first dg_size of
\* them are the closest of the candidates.
C27_CandidatesSortedByDistance ==
    (CandidatesCalled /\ result.ok) =>
        LET t == call.dst.name
            n == Len(result.targets)
        IN  /\ \A i \in 1..n, j \in 1..n :
                   i < j => /\ TargetDistance(t, i) <= TargetDistance(t, j)
                            /\ cmp_distance(t, result.targets[i].name,
                                            result.targets[j].name) # "Greater"
            /\ result.dg_size <= n
            /\ \A i \in 1..result.dg_size, j \in (result.dg_size + 1)..n :
                   TargetDistance(t, i) <= TargetDistance(t, j)

\* candidates gave peers in another order than that of their names.
C27_Witness ==
    /\ CandidatesCalled
    /\ result.ok
    /\ result.dg_size < Len(result.targets)
    /\ \E i \in 1..Len(result.targets), j \in 1..Len(result.targets) :
           i < j /\ result.targets[i].name > result.targets[j].name

\* C28: signature_targets with Direct gives the empty list whatever the
\* elders are, one or more of them too; it does not fail.
C28_DirectHasNoSignatureTargets ==
    (call.op = "signature_targets" /\ call.dst = Direct) => result = <<>>

\* signature_targets was called with Direct and some elders.
C28_Witness ==
    /\ call.op = "signature_targets"
    /\ call.dst = Direct
    /\ Len(call.elders) >= 3
    /\ result = <<>>

---------------------------------------------------------------------------
(* Further properties of the stage.                                        *)

\* process_message was called on a node that was not approved yet.
UnapprovedGot ==
    call.op = "process_message" /\ call.state \in {"Bootstrapping", "Joining"}

\* The message is Direct or for the node of our name.
DirectOrOurs == call.msg.dst = Direct \/ call.msg.dst = Node(our_id)

\* C29: a node that is Bootstrapping or Joining hands a message to the
\* handler of its state if and only if the destination is Direct or
\* Node(our name); a message for a section or for another node is dropped,
\* process_message returning Ok with the state as it was; no message is
\* relayed in these states.
C29_UnapprovedHandlesDirectOrOurs ==
    UnapprovedGot =>
        /\ "relay" \notin Range(result.did)
        /\ DirectOrOurs <=> result.did = <<"handle">>
        /\ ~DirectOrOurs =>
               /\ result = StageOk(<<>>)
               /\ state = call.state
               /\ Our(sections) = call.our

\* A joining node dropped a message for a section, and a bootstrapping one
\* a message for another node.
C29_Witness ==
    /\ UnapprovedGot
    /\ call.state = "Joining"
    /\ is_section(call.msg.dst)
    /\ result = StageOk(<<>>)
    /\ state = "Joining"
C29_WitnessOtherNode ==
    /\ UnapprovedGot
    /\ call.state = "Bootstrapping"
    /\ call.msg.dst.kind = "Node"
    /\ call.msg.dst # Node(our_id)
    /\ result = StageOk(<<>>)
C29_WitnessHandled ==
    /\ UnapprovedGot
    /\ call.msg.dst = Direct
    /\ result.did = <<"handle">>

\* C30: an approved node relays a message before it hands it to the local
\* handler; if the relay fails, process_message returns the error of the
\* relay, the local handler does not get the message, and the node stays
\* Approved with the shared state it had.
C30_RelayFirstAndItsErrorEnds ==
    ApprovedGot =>
        /\ \A i, j \in 1..Len(result.did) :
               (result.did[i] = "relay" /\ result.did[j] = "handle") => i < j
        /\ ("relay" \in Range(result.did) /\ ~call.relayed.ok) =>
               /\ result = StageErr("relay", <<"relay">>)
               /\ state = "Approved"
               /\ Our(sections) = call.our

\* The relay of a message for our own section failed, and the message was
\* not handled; the relay of another one went well, and it was handled.
C30_Witness ==
    /\ ApprovedGot
    /\ ForUs
    /\ is_section(call.msg.dst)
    /\ ~call.relayed.ok
    /\ result = StageErr("relay", <<"relay">>)
    /\ state = "Approved"
C30_WitnessBoth ==
    /\ ApprovedGot
    /\ call.relayed.ok
    /\ result.did = <<"relay", "handle">>

---------------------------------------------------------------------------
(* Properties of the genesis updates and of the forwarding of the adult.   *)

\* The message handled is a genesis update, and its info.
IsUpdate == call.msg.content.content = "GenesisUpdate"
Trusted == TrustStatus.ok /\ TrustStatus.status = "Full"
Applied == adult.gen_pfx_info # call.before.gen_pfx_info

\* The adult as it was, the message handled being noted as seen.
BeforeButSeen ==
    [call.before EXCEPT !.routing_msg_filter.incoming = @ \cup {call.msg}]

\* C32: gen_pfx_info.parsec_version of the adult never decreases;
\* a genesis update is applied only if its parsec_version is greater than
\* the current one, and one of an equal or lower version returns Stay and
\* leaves gen_pfx_info, the chain, the parsec map and both backlogs as they
\* were.
C32_ParsecVersionNeverDecreases ==
    GotHop =>
        /\ adult.gen_pfx_info.parsec_version
               >= call.before.gen_pfx_info.parsec_version
        /\ Applied =>
               /\ IsUpdate
               /\ adult.gen_pfx_info = call.msg.content.info
               /\ adult.gen_pfx_info.parsec_version
                      > call.before.gen_pfx_info.parsec_version
        /\ (TrustChecked /\ Trusted
               /\ call.msg.content.info.parsec_version
                      <= call.before.gen_pfx_info.parsec_version) =>
               /\ result = [ret |-> Stay, sent |-> <<>>]
               /\ adult = BeforeButSeen

\* A trusted update of a lower version came after a higher one was applied.
C32_Witness ==
    /\ TrustChecked
    /\ Trusted
    /\ call.msg.content.info.parsec_version
           < call.before.gen_pfx_info.parsec_version
    /\ adult.gen_pfx_info = call.before.gen_pfx_info

\* C33: a new genesis update for our location is applied only if its
\* signature verifies with the status Full; when applied, it replaces
\* gen_pfx_info, the chain is made anew from it, and both backlogs are
\* emptied; such a message is never put in the backlog and never forwarded
\* to our elders.
C33_UpdateAppliedOnlyIfTrusted ==
    TrustChecked =>
        /\ Applied => Trusted
        /\ Applied =>
               /\ adult.gen_pfx_info = call.msg.content.info
               /\ adult.chain = Chain(call.msg.content.info)
               /\ adult.routing_msg_backlog = <<>>
               /\ adult.direct_msg_backlog = <<>>
        /\ ~Applied =>
               /\ adult.routing_msg_backlog = call.before.routing_msg_backlog
               /\ adult.chain = call.before.chain
        /\ result.sent = <<>>
        /\ adult.routing_msg_filter.outgoing
               = call.before.routing_msg_filter.outgoing

\* An update was applied by an adult that had a message in its backlog.
C33_Witness ==
    /\ TrustChecked
    /\ Applied
    /\ call.before.routing_msg_backlog # <<>>
    /\ adult.routing_msg_backlog = <<>>

C34_WitnessKept ==
    /\ GotHop
    /\ ~SeenBefore
    /\ call.msg.content = UserMessage
    /\ call.msg.dst = Node(our_id)
    /\ Len(result.sent) = AdultElderCount
    /\ adult.routing_msg_backlog = <<call.msg>>

\* C35: a genesis update for us that fails the trust check, its proof being
\* too new or invalid, makes handle_signed_message return an error, and
\* stays in the incoming filter; every later delivery of the message is
\* dropped as known, and the update is not applied that way.
C35_FailedUpdateStaysSeen ==
    /\ (TrustChecked /\ ~Trusted) =>
           /\ ~result.ret.ok
           /\ result.sent = <<>>
           /\ adult = BeforeButSeen
    /\ (GotHop /\ SeenBefore /\ IsUpdate) =>
           /\ result.ret = Stay
           /\ ~Applied
           /\ call.msg \in adult.routing_msg_filter.incoming

\* An update whose proof was too new is delivered again when the chain
\* trusts its key and its version is still ahead: it is dropped.
C35_Witness ==
    /\ GotHop
    /\ SeenBefore
    /\ IsUpdate
    /\ in_location(call.msg.dst, our_id, adult.chain)
    /\ verify(call.msg, adult.chain) = [ok |-> TRUE, status |-> "Full"]
    /\ call.msg.content.info.parsec_version > adult.gen_pfx_info.parsec_version
    /\ result.ret = Stay
C35_WitnessInvalid ==
    /\ TrustChecked
    /\ ~TrustStatus.ok
    /\ ~result.ret.ok

-----------------------------------------------------------------------------
\* Properties of the replay of the backlogs of an adult

\* The backlogs were replayed; what they held before.
Replay == AdultGot("finish_handle_transition")
DirectBefore == call.before.direct_msg_backlog
RoutingBefore == call.before.routing_msg_backlog

\* What the handling of the k-th direct message of the backlog gives. The
\* direct messages of the backlogs give the same whatever was replayed
\* before them.
YieldOf(k) ==
    handle_direct_message(call.before, our_id, DirectBefore[k][2],
                          DirectBefore[k][1]).ret

\* The direct messages of the backlog whose handling changes the state of
\* the node.
Leaving == {k \in 1..Len(DirectBefore) : YieldOf(k).ok /\ YieldOf(k) # Stay}

\* The direct messages the handler puts back in the backlog, of those
\* handled.
IsKeptForElder(entry) == entry[2].kind \in {"JoinRequest", "MemberKnowledge"}
PutBack(k) == SelectSeq(SubSeq(DirectBefore, 1, k), IsKeptForElder)

\* C38: finish_handle_transition replays the direct backlog in order, then
\* the routing backlog in order; once a replayed message gives a transition
\* other than Stay no later message of either backlog is handled, each is
\* kept in its backlog in the order it had, and that transition is
\* returned (Stay if there is none); the error of a handler does not stop
\* the replay.
C38_ReplayStopsAtFirstTransition ==
    Replay =>
        IF Leaving = {}
        THEN /\ result.ret = Stay
             /\ result.handled = DirectBefore \o RoutingBefore
        ELSE LET k == CHOOSE i \in Leaving : \A j \in Leaving : i <= j
             IN  /\ result.ret = YieldOf(k)
                 /\ result.handled = SubSeq(DirectBefore, 1, k)
                 /\ adult.direct_msg_backlog =
                        PutBack(k) \o SubSeq(DirectBefore, k + 1,
                                             Len(DirectBefore))
                 /\ adult.routing_msg_backlog = RoutingBefore

\* The handler failed on the first direct message and the second one was
\* replayed all the same; a transition came of it, and the routing messages
\* are kept.
C38_Witness ==
    /\ Replay
    /\ Len(DirectBefore) > 1
    /\ ~YieldOf(1).ok
    /\ result.ret # Stay
    /\ Len(result.handled) = 2
    /\ Len(adult.routing_msg_backlog) = MaxBacklog

\* A transition came of the first direct message: the second one and the
\* routing messages are kept.
C38_WitnessKept ==
    /\ Replay
    /\ result.ret # Stay
    /\ Len(result.handled) = 1
    /\ Len(adult.direct_msg_backlog) = 1
    /\ Len(adult.routing_msg_backlog) = MaxBacklog

\* The forged genesis update was replayed first, its handler failed, and the
\* routing message after it was replayed.
C38_WitnessError ==
    /\ Replay
    /\ Len(RoutingBefore) > 1
    /\ ~verify(RoutingBefore[1], call.before.chain).ok
    /\ RoutingBefore[1].content.content = "GenesisUpdate"
    /\ Len(result.handled) = Len(DirectBefore) + Len(RoutingBefore)

\* The messages of the call that went to an elder as signed messages, by
\* their place among the messages sent; the other messages sent are direct
\* ones.
Forwards == {i \in 1..Len(result.sent) : "proof" \in DOMAIN result.sent[i][2]}

\* The pair the outgoing filter holds for the i-th message sent.
PairOf(i) == <<result.sent[i][2], result.sent[i][1]>>

\* C31: while the node is an adult a signed message goes to an elder at most
\* once through send_signed_message_to_elders: it goes only to the elders
\* the outgoing filter holds it as new for, the filter holds the pair from
\* then on, and the message forwarded is in the incoming filter afterwards.
C31_ForwardedOncePerElder ==
    (state = "Adult" /\ "before" \in DOMAIN call) =>
        /\ \A i \in Forwards :
               /\ PairOf(i) \notin call.before.routing_msg_filter.outgoing
               /\ PairOf(i) \in adult.routing_msg_filter.outgoing
               /\ result.sent[i][1] \in call.before.chain.our_elders
               /\ result.sent[i][2] \in adult.routing_msg_filter.incoming
        /\ \A i, j \in Forwards : PairOf(i) = PairOf(j) => i = j
        /\ call.before.routing_msg_filter.outgoing
               \subseteq adult.routing_msg_filter.outgoing

\* The routing backlog held the same message twice: it was handed twice to
\* the handler and went once to each elder.
C31_Witness ==
    /\ Replay
    /\ Len(RoutingBefore) = 2
    /\ RoutingBefore[1] = RoutingBefore[2]
    /\ Len(result.handled) = 2
    /\ Cardinality(Forwards) = AdultElderCount
    /\ \A i \in Forwards : result.sent[i][2] = RoutingBefore[1]

-----------------------------------------------------------------------------
\* Properties of the direct messages of an adult, and of its promotion

\* The adult got a bootstrap request as a direct message.
GotBootstrapRequest ==
    /\ AdultGot("handle_direct_message")
    /\ call.msg.kind = "BootstrapRequest"

\* The response the call sent.
ResponseSent == result.sent[1][2].response

\* C36: an adult answers a BootstrapRequest(destination) with one
\* BootstrapResponse, sent to the requester: Join with the info of our
\* section if our prefix matches the destination, and otherwise Rebootstrap
\* with the connection infos of the elders of our own section; the state of
\* the adult is as before and the transition is Stay.
C36_BootstrapRequestAnswered ==
    GotBootstrapRequest =>
        /\ result.ret = Stay
        /\ adult = call.before
        /\ Len(result.sent) = 1
        /\ result.sent[1][1] = connection_info(call.p2p_node)
        /\ result.sent[1][2].content = "BootstrapResponse"
        /\ IF Matches(call.before.chain.our_prefix, call.msg.name)
           THEN ResponseSent = Join(our_info(call.before.chain))
           ELSE ResponseSent = Rebootstrap(ConnInfosOf(call.before.chain))

\* A request for a name of another section was answered with the elders of
\* ours.
C36_Witness ==
    /\ GotBootstrapRequest
    /\ ~Matches(call.before.chain.our_prefix, call.msg.name)
    /\ ResponseSent.response = "Rebootstrap"
    /\ Len(ResponseSent.conn_infos) = AdultElderCount

\* A request for a name of our section was answered with Join.
C36_WitnessJoin ==
    /\ GotBootstrapRequest
    /\ Matches(call.before.chain.our_prefix, call.msg.name)
    /\ ResponseSent.response = "Join"

\* The elder the adult was made into, and the adult it was.
Elder == adult.details
Was == call.before

\* C37: into_elder gives the elder an empty routing message filter and the
\* chain, the two message backlogs, the event backlog, the signature
\* accumulator and the parsec map of the adult as they were, so that a
\* message the adult had seen is new to the elder.
C37_ElderStartsWithEmptyFilter ==
    Made("IntoElder") =>
        /\ state = "Elder"
        /\ Elder.routing_msg_filter = RoutingMessageFilter_new
        /\ Elder.chain = Was.chain
        /\ Elder.routing_msg_backlog = Was.routing_msg_backlog
        /\ Elder.direct_msg_backlog = Was.direct_msg_backlog
        /\ Elder.event_backlog = Was.event_backlog
        /\ Elder.sig_accumulator = Was.sig_accumulator
        /\ Elder.parsec_map = Was.parsec_map
        /\ \A msg \in Was.routing_msg_filter.incoming :
               filter_incoming(Elder.routing_msg_filter, msg).is_new

\* The adult promoted had seen and forwarded a message, and had messages in
\* both backlogs and an event in its event backlog.
C37_Witness ==
    /\ Made("IntoElder")
    /\ Was.routing_msg_filter.incoming # {}
    /\ Was.routing_msg_filter.outgoing # {}
    /\ Was.routing_msg_backlog # <<>>
    /\ Was.direct_msg_backlog # <<>>
    /\ Was.event_backlog # <<>>
    /\ Elder.routing_msg_backlog # <<>>
    /\ Elder.routing_msg_filter.incoming = {}

=============================================================================
